---- MODULE Spec2Model ----
(***************************************************************************)
(* Model of cruxstack/aws-securityhubv2-bot: the auto-close rule matching  *)
(* engine (internal/filters) and the decision pipeline App.Process         *)
(* (internal/app), with the finding closer and the notifier as             *)
(* collaborators whose results are chosen nondeterministically.            *)
(***************************************************************************)
EXTENDS Integers, Sequences, FiniteSets, TLC

VARIABLES
    rules,        \* FilterEngine.Rules of the constructed App
    notifier,     \* TRUE iff App.Notifier is non-nil
    evt,          \* the SecurityHubEventInput handed to Process
    finding,      \* the finding returned by ParseEvent (<<>> before that)
    pc,           \* position of the invocation inside Process
    matchedIdx,   \* index of the rule FindMatchingRule returned, 0 for (nil, false)
    closeCalls,   \* BatchUpdateFindingsV2 calls so far: request and response
    notifyCalls,  \* Notifier.Notify calls so far: finding and returned error
    result,       \* the value Process returned
    steps,        \* the operations the invocation has performed, in order
    filters,      \* input of the matching-engine specification: a RuleFilters
    verdict,      \* output of the matching-engine specification
    ctxDone,      \* "no", or the position of Process at which ctx was cancelled
    bucket,       \* the S3 bucket LoadRules reads: listing and objects
    loaded,       \* what LoadRules returned
    payload,      \* a JSON document handed to a decoder, as its tokens
    parsed,       \* what the decoder returned for payload
    env,          \* what NewConfig and app.New read: configuration and bucket
    once,         \* state of the sync.Once of cmd/lambda
    app,          \* the globals a and initErr of cmd/lambda
    procs         \* the concurrent handler invocations of one process

loaderVars == <<bucket, loaded, payload, parsed>>

handlerVars == <<env, once, app, procs>>

vars == <<rules, notifier, evt, finding, pc, matchedIdx, closeCalls,
          notifyCalls, result, steps, filters, verdict, ctxDone,
          bucket, loaded, payload, parsed, env, once, app, procs>>

LoaderIdle == bucket = <<>> /\ loaded = <<>> /\ payload = <<>> /\ parsed = <<>>

HandlerIdle == env = <<>> /\ once = <<>> /\ app = <<>> /\ procs = <<>>

----------------------------------------------------------------------------
(* Bounds *)

MaxRules == 2
MaxFilterLen == 2
MaxTypes == 2
MaxRes == 2
MaxTags == 2

RECURSIVE SeqsOfLen(_, _)
SeqsOfLen(S, n) ==
    IF n = 0 THEN {<<>>}
    ELSE {Append(s, x) : s \in SeqsOfLen(S, n - 1), x \in S}

SeqsUpTo(S, n) == UNION {SeqsOfLen(S, k) : k \in 0..n}

NonEmptySeqsUpTo(S, n) == SeqsUpTo(S, n) \ {<<>>}

----------------------------------------------------------------------------
(* internal/filters: the category matchers, computed as the loops compute  *)
(* them (first hit returns).                                               *)

RECURSIVE containsFrom(_, _, _)
containsFrom(slice, item, i) ==
    IF i > Len(slice) THEN FALSE
    ELSE IF slice[i] = item THEN TRUE
    ELSE containsFrom(slice, item, i + 1)

contains(slice, item) == containsFrom(slice, item, 1)

RECURSIVE matchesFindingTypesFrom(_, _, _)
matchesFindingTypesFrom(f, types, i) ==
    IF i > Len(types) THEN FALSE
    ELSE IF contains(f.FindingInfo.Types, types[i]) THEN TRUE
    ELSE matchesFindingTypesFrom(f, types, i + 1)

matchesFindingTypes_FirstEntryOnly(f, types) ==
    Len(types) > 0 /\ contains(f.FindingInfo.Types, types[1])

matchesFindingTypes(f, types) == matchesFindingTypesFrom(f, types, 1)

RECURSIVE matchesResourceTypesFrom(_, _, _)
matchesResourceTypesFrom(f, types, r) ==
    IF r > Len(f.Resources) THEN FALSE
    ELSE IF contains(types, f.Resources[r].Type) THEN TRUE
    ELSE matchesResourceTypesFrom(f, types, r + 1)

matchesResourceTypes(f, types) == matchesResourceTypesFrom(f, types, 1)

RECURSIVE tagFoundFrom(_, _, _)
tagFoundFrom(resourceTags, filterTag, t) ==
    IF t > Len(resourceTags) THEN FALSE
    ELSE IF resourceTags[t].Name = filterTag.Name
            /\ resourceTags[t].Value = filterTag.Value THEN TRUE
    ELSE tagFoundFrom(resourceTags, filterTag, t + 1)

RECURSIVE resourceHasAllTagsFrom(_, _, _)
resourceHasAllTagsFrom(resourceTags, tagFilters, i) ==
    IF i > Len(tagFilters) THEN TRUE
    ELSE IF ~tagFoundFrom(resourceTags, tagFilters[i], 1) THEN FALSE
    ELSE resourceHasAllTagsFrom(resourceTags, tagFilters, i + 1)

resourceHasAllTags(resourceTags, tagFilters) ==
    resourceHasAllTagsFrom(resourceTags, tagFilters, 1)

RECURSIVE matchesResourceTagsFrom(_, _, _)
matchesResourceTagsFrom(f, tagFilters, r) ==
    IF r > Len(f.Resources) THEN FALSE
    ELSE IF resourceHasAllTags(f.Resources[r].Tags, tagFilters) THEN TRUE
    ELSE matchesResourceTagsFrom(f, tagFilters, r + 1)

matchesResourceTags_AcrossResources(f, tagFilters) ==
    /\ Len(f.Resources) # 0
    /\ \A i \in 1..Len(tagFilters) :
          \E r \in 1..Len(f.Resources) :
             tagFoundFrom(f.Resources[r].Tags, tagFilters[i], 1)

matchesResourceTags(f, tagFilters) ==
    IF Len(f.Resources) = 0 THEN FALSE
    ELSE matchesResourceTagsFrom(f, tagFilters, 1)

matchesFilters_NoAccounts(f, flt) ==
    IF Len(flt.FindingTypes) > 0 /\ ~matchesFindingTypes(f, flt.FindingTypes)
        THEN FALSE
    ELSE IF Len(flt.Severity) > 0 /\ ~contains(flt.Severity, f.Severity)
        THEN FALSE
    ELSE IF Len(flt.ProductName) > 0
            /\ ~contains(flt.ProductName, f.Metadata.Product.Name)
        THEN FALSE
    ELSE IF Len(flt.ResourceTypes) > 0
            /\ ~matchesResourceTypes(f, flt.ResourceTypes)
        THEN FALSE
    ELSE IF Len(flt.ResourceTags) > 0
            /\ ~matchesResourceTags(f, flt.ResourceTags)
        THEN FALSE
    ELSE IF Len(flt.Regions) > 0 /\ ~contains(flt.Regions, f.Cloud.Region)
        THEN FALSE
    ELSE TRUE

matchesFilters(f, flt) ==
    IF Len(flt.FindingTypes) > 0 /\ ~matchesFindingTypes(f, flt.FindingTypes)
        THEN FALSE
    ELSE IF Len(flt.Severity) > 0 /\ ~contains(flt.Severity, f.Severity)
        THEN FALSE
    ELSE IF Len(flt.ProductName) > 0
            /\ ~contains(flt.ProductName, f.Metadata.Product.Name)
        THEN FALSE
    ELSE IF Len(flt.ResourceTypes) > 0
            /\ ~matchesResourceTypes(f, flt.ResourceTypes)
        THEN FALSE
    ELSE IF Len(flt.ResourceTags) > 0
            /\ ~matchesResourceTags(f, flt.ResourceTags)
        THEN FALSE
    ELSE IF Len(flt.Accounts) > 0 /\ ~contains(flt.Accounts, f.Cloud.Account.UID)
        THEN FALSE
    ELSE IF Len(flt.Regions) > 0 /\ ~contains(flt.Regions, f.Cloud.Region)
        THEN FALSE
    ELSE TRUE

RECURSIVE FindMatchingRuleFrom(_, _, _)
FindMatchingRuleFrom(rs, f, i) ==
    IF i > Len(rs) THEN 0
    ELSE IF ~rs[i].Enabled THEN FindMatchingRuleFrom(rs, f, i + 1)
    ELSE IF matchesFilters(f, rs[i].Filters) THEN i
    ELSE FindMatchingRuleFrom(rs, f, i + 1)

RECURSIVE FindLastMatchingFrom(_, _, _)
FindLastMatchingFrom(rs, f, i) ==
    IF i < 1 THEN 0
    ELSE IF rs[i].Enabled /\ matchesFilters(f, rs[i].Filters) THEN i
    ELSE FindLastMatchingFrom(rs, f, i - 1)

FindMatchingRule_LastMatch(rs, f) == FindLastMatchingFrom(rs, f, Len(rs))

RECURSIVE FindIgnoringEnabledFrom(_, _, _)
FindIgnoringEnabledFrom(rs, f, i) ==
    IF i > Len(rs) THEN 0
    ELSE IF matchesFilters(f, rs[i].Filters) THEN i
    ELSE FindIgnoringEnabledFrom(rs, f, i + 1)

FindMatchingRule_IgnoreEnabled(rs, f) == FindIgnoringEnabledFrom(rs, f, 1)

\* The index of the returned rule stands for the pointer &e.Rules[i]; 0 is
\* the (nil, false) return.
FindMatchingRule(rs, f) == FindMatchingRuleFrom(rs, f, 1)

----------------------------------------------------------------------------
(* internal/events: the finding and its decoding *)

NoFinding == <<>>

\* A Go string field that the JSON document does not set keeps its zero value.
Field(obj, key, zero) == IF key \in DOMAIN obj THEN obj[key] ELSE zero

DecodeTag(t) == [Name |-> Field(t, "name", ""), Value |-> Field(t, "value", "")]

DecodeResource(r) ==
    [Type |-> Field(r, "type", ""),
     Tags |-> LET ts == Field(r, "tags", <<>>)
              IN  [i \in 1..Len(ts) |-> DecodeTag(ts[i])]]

\* Compliance is a pointer: <<>> is nil, <<c>> is &c.
DecodeCompliance(obj) ==
    IF "compliance" \in DOMAIN obj
    THEN <<[Status |-> Field(obj["compliance"], "status", "")]>>
    ELSE <<>>

\* json.Unmarshal of one raw finding into SecurityHubV2Finding.
DecodeFinding(obj) ==
    [Metadata    |-> LET m == Field(obj, "metadata", <<>>)
                     IN  [UID     |-> Field(m, "uid", ""),
                          Product |-> [Name |-> Field(Field(m, "product", <<>>),
                                                      "name", "")]],
     Cloud       |-> LET c == Field(obj, "cloud", <<>>)
                     IN  [Account |-> [UID |-> Field(Field(c, "account", <<>>),
                                                     "uid", "")],
                          Region  |-> Field(c, "region", "")],
     FindingInfo |-> [Types |-> Field(Field(obj, "finding_info", <<>>),
                                      "types", <<>>)],
     Resources   |-> LET rs == Field(obj, "resources", <<>>)
                     IN  [i \in 1..Len(rs) |-> DecodeResource(rs[i])],
     Compliance  |-> DecodeCompliance(obj),
     Severity    |-> Field(obj, "severity", ""),
     Status      |-> Field(obj, "status", "")]

ErrNil == [kind |-> "nil"]
ErrPending == [kind |-> "pending"]

NewSecurityHubFinding_SwallowError(raw) ==
    IF raw.json # "object"
    THEN [finding |-> DecodeFinding(<<>>), err |-> ErrNil]
    ELSE [finding |-> DecodeFinding(raw.obj), err |-> ErrNil]

NewSecurityHubFinding(raw) ==
    IF raw.json # "object"
    THEN [finding |-> DecodeFinding(<<>>), err |-> [kind |-> "MalformedFinding"]]
    ELSE [finding |-> DecodeFinding(raw.obj), err |-> ErrNil]

AlertSeverities == <<"Critical", "High", "Medium">>

IsAlertable_ComplianceOnly(f) ==
    IF f.Status # "New" THEN FALSE
    ELSE IF Len(f.Compliance) > 0 THEN f.Compliance[1].Status = "Fail"
    ELSE contains(AlertSeverities, f.Severity)

IsAlertable(f) ==
    IF f.Status # "New" THEN FALSE
    ELSE IF Len(f.Compliance) > 0 /\ f.Compliance[1].Status = "Fail" THEN TRUE
    ELSE contains(AlertSeverities, f.Severity)

----------------------------------------------------------------------------
(* Input domains *)

NoFilters ==
    [FindingTypes |-> <<>>, Severity |-> <<>>, ProductName |-> <<>>,
     ResourceTypes |-> <<>>, ResourceTags |-> <<>>, Accounts |-> <<>>,
     Regions |-> <<>>]

ScenarioType == "Execution:Runtime/NewBinaryExecuted"
RunnerTag == [name |-> "component-type", value |-> "github-action-runners"]

TypeVals == {ScenarioType, "Policy:IAMUser/RootCredentialUsage"}
SeverityVals == {"High", "Low"}
ProductVals == {"GuardDuty", "Inspector"}
ResTypeVals == {"AWS::EC2::Instance", "AWS::S3::Bucket"}
AccountVals == {"111111111111", "222222222222"}
RegionVals == {"us-east-1", "us-west-2"}
Unlisted == "unlisted"

\* Tags as they appear in a finding document and as a rule requires them.
RawTagPool ==
    {[name |-> "provider", value |-> "a"], [name |-> "team", value |-> "b"],
     [name |-> "provider", value |-> "b"]}

TagFilterPool == {[Name |-> t.name, Value |-> t.value] : t \in RawTagPool}

RawFindingDoc(uid, status, severity, types, product, account, region, resources) ==
    [json |-> "object",
     obj  |-> [metadata |-> [uid |-> uid, product |-> [name |-> product]],
               status |-> status, severity |-> severity,
               finding_info |-> [types |-> types],
               cloud |-> [account |-> [uid |-> account], region |-> region],
               resources |-> resources]]

\* A finding as the engine sees it: decoded from a complete document.
EngineFinding(types, severity, product, account, region, resources) ==
    NewSecurityHubFinding(
        RawFindingDoc("f-1", "New", severity, types, product, account, region,
                      resources)).finding

RawResource(type, tags) == [type |-> type, tags |-> tags]

\* (a) every category empty or holding one entry, against findings that
\*     satisfy or miss each category independently
ShortLists(v) == {<<>>, <<v>>}

CrossFilters ==
    {[FindingTypes |-> ft, Severity |-> sv, ProductName |-> pn,
      ResourceTypes |-> rt, ResourceTags |-> tg, Accounts |-> ac, Regions |-> rg] :
        ft \in ShortLists(ScenarioType), sv \in ShortLists("High"),
        pn \in ShortLists("GuardDuty"), rt \in ShortLists("AWS::EC2::Instance"),
        tg \in ShortLists([Name |-> "provider", Value |-> "a"]),
        ac \in ShortLists("111111111111"), rg \in ShortLists("us-east-1")}

CrossResources ==
    {<<>>} \cup
    {<<RawResource(t, tags)>> :
        t \in ResTypeVals, tags \in ShortLists([name |-> "provider", value |-> "a"])}

CrossFindings ==
    {EngineFinding(<<t>>, sv, pn, ac, rg, rs) :
        t \in TypeVals, sv \in SeverityVals, pn \in ProductVals,
        ac \in AccountVals, rg \in RegionVals, rs \in CrossResources}

\* (b) one category with up to MaxFilterLen entries, the others empty
OnlyCategory(c, list) == [NoFilters EXCEPT ![c] = list]

BaseFinding(types, severity, product, account, region, resources) ==
    EngineFinding(types, severity, product, account, region, resources)

ScalarInputs ==
    {<<OnlyCategory("Severity", l), BaseFinding(<<>>, v, "", "", "", <<>>)>> :
        l \in NonEmptySeqsUpTo(SeverityVals, MaxFilterLen),
        v \in SeverityVals \cup {Unlisted}}
    \cup
    {<<OnlyCategory("ProductName", l), BaseFinding(<<>>, "", v, "", "", <<>>)>> :
        l \in NonEmptySeqsUpTo(ProductVals, MaxFilterLen),
        v \in ProductVals \cup {Unlisted}}
    \cup
    {<<OnlyCategory("Accounts", l), BaseFinding(<<>>, "", "", v, "", <<>>)>> :
        l \in NonEmptySeqsUpTo(AccountVals, MaxFilterLen),
        v \in AccountVals \cup {Unlisted}}
    \cup
    {<<OnlyCategory("Regions", l), BaseFinding(<<>>, "", "", "", v, <<>>)>> :
        l \in NonEmptySeqsUpTo(RegionVals, MaxFilterLen),
        v \in RegionVals \cup {Unlisted}}

TypeInputs ==
    {<<OnlyCategory("FindingTypes", l), BaseFinding(ts, "", "", "", "", <<>>)>> :
        l \in NonEmptySeqsUpTo(TypeVals, MaxFilterLen),
        ts \in SeqsUpTo(TypeVals \cup {Unlisted}, MaxTypes)}

ResourceTypeInputs ==
    {<<OnlyCategory("ResourceTypes", l), BaseFinding(<<>>, "", "", "", "", rs)>> :
        l \in NonEmptySeqsUpTo(ResTypeVals, MaxFilterLen),
        rs \in SeqsUpTo({RawResource(t, <<>>) : t \in ResTypeVals \cup {Unlisted}},
                        MaxRes)}

\* (c) a resource-tags filter against resources carrying up to MaxTags tags
TaggedResources ==
    {RawResource("AWS::EC2::Instance", tags) : tags \in SeqsUpTo(RawTagPool, MaxTags)}

TagInputs ==
    {<<OnlyCategory("ResourceTags", l), BaseFinding(<<>>, "", "", "", "", rs)>> :
        l \in NonEmptySeqsUpTo(TagFilterPool, MaxFilterLen),
        rs \in SeqsUpTo(TaggedResources, MaxRes)}

EngineInputs ==
    (CrossFilters \X CrossFindings) \cup ScalarInputs \cup TypeInputs
        \cup ResourceTypeInputs \cup TagInputs

----------------------------------------------------------------------------
(* The matching-engine specification: matchesFilters applied to one finding *)
(* and one RuleFilters.                                                     *)

InitEngine ==
    /\ \E in \in EngineInputs : filters = in[1] /\ finding = in[2]
    /\ verdict = "none"
    /\ pc = "Input"
    /\ rules = <<>>
    /\ notifier = FALSE
    /\ evt = <<>>
    /\ matchedIdx = 0
    /\ closeCalls = <<>>
    /\ notifyCalls = <<>>
    /\ result = ErrPending
    /\ steps = <<>>
    /\ ctxDone = "no"
    /\ LoaderIdle
    /\ HandlerIdle

ApplyMatchesFilters ==
    /\ pc = "Input"
    /\ verdict' = matchesFilters(finding, filters)
    /\ pc' = "Evaluated"
    /\ UNCHANGED <<rules, notifier, evt, finding, matchedIdx, closeCalls,
                   notifyCalls, result, steps, filters>>
    /\ UNCHANGED <<ctxDone, loaderVars, handlerVars>>

NextEngine == ApplyMatchesFilters

SpecEngine == InitEngine /\ [][NextEngine]_vars

----------------------------------------------------------------------------
(* internal/actions and internal/app: the collaborators and the pipeline *)

SupportedDetailType == "Findings Imported V2"

\* detail.Findings after a successful json.Unmarshal of the detail.
DetailFindings(d) ==
    IF d.json = "object" THEN Field(d.obj, "findings", <<>>) ELSE <<>>

ParseEvent_DecodeFirst(e) ==
    IF e.Detail.json \notin {"object", "null"}
    THEN [finding |-> NoFinding,
          err |-> [kind |-> "DetailDecodeError"],
          ops |-> <<"decode">>]
    ELSE IF e.DetailType # SupportedDetailType
    THEN [finding |-> NoFinding,
          err |-> [kind |-> "UnsupportedEventType", detailType |-> e.DetailType],
          ops |-> <<"decode", "validate">>]
    ELSE LET findings == DetailFindings(e.Detail)
         IN  IF Len(findings) = 0
             THEN [finding |-> NoFinding,
                   err |-> [kind |-> "EmptyFindingsPayload", eventId |-> e.EventID],
                   ops |-> <<"decode", "validate", "extract">>]
             ELSE LET p == NewSecurityHubFinding(findings[1])
                  IN  [finding |-> p.finding, err |-> p.err,
                       ops |-> <<"decode", "validate", "extract", "parse">>]

ParseEvent_LastFinding(e) ==
    IF e.DetailType # SupportedDetailType
    THEN [finding |-> NoFinding,
          err |-> [kind |-> "UnsupportedEventType", detailType |-> e.DetailType],
          ops |-> <<"validate">>]
    ELSE IF e.Detail.json \notin {"object", "null"}
    THEN [finding |-> NoFinding,
          err |-> [kind |-> "DetailDecodeError"],
          ops |-> <<"validate", "decode">>]
    ELSE LET findings == DetailFindings(e.Detail)
         IN  IF Len(findings) = 0
             THEN [finding |-> NoFinding,
                   err |-> [kind |-> "EmptyFindingsPayload", eventId |-> e.EventID],
                   ops |-> <<"validate", "decode", "extract">>]
             ELSE LET p == NewSecurityHubFinding(findings[Len(findings)])
                  IN  [finding |-> p.finding, err |-> p.err,
                       ops |-> <<"validate", "decode", "extract", "parse">>]

\* json.Unmarshal(e.Detail, &detail): a JSON object or null decodes; null and
\* a missing "findings" key leave detail.Findings nil.
ParseEvent(e) ==
    IF e.DetailType # SupportedDetailType
    THEN [finding |-> NoFinding,
          err |-> [kind |-> "UnsupportedEventType", detailType |-> e.DetailType],
          ops |-> <<"validate">>]
    ELSE IF e.Detail.json \notin {"object", "null"}
    THEN [finding |-> NoFinding,
          err |-> [kind |-> "DetailDecodeError"],
          ops |-> <<"validate", "decode">>]
    ELSE LET findings == DetailFindings(e.Detail)
         IN  IF Len(findings) = 0
             THEN [finding |-> NoFinding,
                   err |-> [kind |-> "EmptyFindingsPayload", eventId |-> e.EventID],
                   ops |-> <<"validate", "decode", "extract">>]
             ELSE LET p == NewSecurityHubFinding(findings[1])
                  IN  [finding |-> p.finding, err |-> p.err,
                       ops |-> <<"validate", "decode", "extract", "parse">>]

\* The BatchUpdateFindingsV2 request CloseFinding builds.
CloseInput_OtherUid(f, statusID, comment) ==
    [MetadataUids |-> <<"">>, StatusId |-> statusID, Comment |-> comment]

CloseInput(f, statusID, comment) ==
    [MetadataUids |-> <<f.Metadata.UID>>, StatusId |-> statusID, Comment |-> comment]

\* What CloseFinding returns for a response of the remote call.
CloseError_IgnoreUnprocessed(f, resp) ==
    IF resp.err # ""
    THEN [kind |-> "UpdateFailed", msg |-> "failed to update finding", cause |-> resp.err]
    ELSE ErrNil

CloseError(f, resp) ==
    IF resp.err # ""
    THEN [kind |-> "UpdateFailed", msg |-> "failed to update finding", cause |-> resp.err]
    ELSE IF Len(resp.UnprocessedFindings) > 0
    THEN [kind |-> "Unprocessed", uid |-> f.Metadata.UID,
          code |-> resp.UnprocessedFindings[1].ErrorCode,
          message |-> resp.UnprocessedFindings[1].ErrorMessage]
    ELSE ErrNil

CloseResponses ==
    {[err |-> "", UnprocessedFindings |-> <<>>],
     [err |-> "AccessDenied", UnprocessedFindings |-> <<>>],
     [err |-> "", UnprocessedFindings |->
         <<[ErrorCode |-> "ResourceNotFoundException", ErrorMessage |-> "not found"]>>]}

\* BatchUpdateFindingsV2(ctx, input) on a context that is already done fails
\* with the context's error; otherwise the service answers.
BatchUpdateResponses(done) ==
    IF done # "no"
    THEN {[err |-> "context canceled", UnprocessedFindings |-> <<>>]}
    ELSE CloseResponses

NotifyResults == {ErrNil, [kind |-> "NotificationFailure", cause |-> "channel_not_found"]}

\* Process, line 168: notify after a successful close.
NotifyAfterClose_IgnoreSkip(rule) == notifier

NotifyAfterClose_IfAlertable(rule) ==
    ~rule.SkipNotification /\ notifier /\ IsAlertable(finding)

NotifyAfterClose(rule) == ~rule.SkipNotification /\ notifier

\* Process, line 180: notify an unmatched finding.
NotifyUnmatched_Always(f) == notifier

NotifyUnmatched(f) == notifier /\ IsAlertable(f)

ParseEventStep ==
    /\ pc = "Received"
    /\ LET p == ParseEvent(evt)
       IN  /\ finding' = p.finding
           /\ steps' = steps \o p.ops
           /\ IF p.err = ErrNil
              THEN pc' = "Parsed" /\ UNCHANGED result
              ELSE pc' = "Failed" /\ result' = p.err
    /\ UNCHANGED <<rules, notifier, evt, matchedIdx, closeCalls, notifyCalls,
                   filters, verdict>>
    /\ UNCHANGED <<ctxDone, loaderVars, handlerVars>>

FindMatchStep ==
    /\ pc = "Parsed"
    /\ matchedIdx' = FindMatchingRule(rules, finding)
    /\ pc' = IF matchedIdx' > 0 THEN "Matched" ELSE "Unmatched"
    /\ steps' = Append(steps, "match")
    /\ UNCHANGED <<rules, notifier, evt, finding, closeCalls, notifyCalls,
                   result, filters, verdict>>
    /\ UNCHANGED <<ctxDone, loaderVars, handlerVars>>

CloseStep ==
    /\ pc = "Matched"
    /\ \E resp \in BatchUpdateResponses(ctxDone) :
          LET rule == rules[matchedIdx]
              err  == CloseError(finding, resp)
          IN  /\ closeCalls' = Append(closeCalls,
                     [input |-> CloseInput(finding, rule.Action.StatusID,
                                           rule.Action.Comment),
                      resp  |-> resp])
              /\ IF err = ErrNil
                 THEN pc' = "Closed" /\ UNCHANGED result
                 ELSE /\ pc' = "Failed"
                      /\ result' = [kind |-> "ActionFailure",
                                    msg |-> "failed to auto-close finding",
                                    cause |-> err]
    /\ steps' = Append(steps, "close")
    /\ UNCHANGED <<rules, notifier, evt, finding, matchedIdx, notifyCalls,
                   filters, verdict>>
    /\ UNCHANGED <<ctxDone, loaderVars, handlerVars>>

WillNotify_BeforeClose ==
    \/ pc = "Matched" /\ NotifyAfterClose(rules[matchedIdx])
    \/ pc = "Closed" /\ NotifyAfterClose(rules[matchedIdx])
    \/ pc = "Unmatched" /\ NotifyUnmatched(finding)

WillNotify ==
    \/ pc = "Closed" /\ NotifyAfterClose(rules[matchedIdx])
    \/ pc = "Unmatched" /\ NotifyUnmatched(finding)

NotifyStep_Rollback ==
    /\ WillNotify
    /\ \E err \in NotifyResults :
          /\ notifyCalls' = Append(notifyCalls, [finding |-> finding, err |-> err])
          /\ IF err = ErrNil
             THEN pc' = "Notified" /\ UNCHANGED <<result, closeCalls>>
             ELSE /\ pc' = "Failed"
                  /\ result' = err
                  /\ closeCalls' =
                        IF closeCalls = <<>> THEN closeCalls
                        ELSE Append(closeCalls,
                                 [input |-> CloseInput(finding, 1, "reopened"),
                                  resp  |-> [err |-> "", UnprocessedFindings |-> <<>>]])
    /\ steps' = Append(steps, "notify")
    /\ UNCHANGED <<rules, notifier, evt, finding, matchedIdx, filters, verdict>>
    /\ UNCHANGED <<ctxDone, loaderVars, handlerVars>>

NotifyStep_WrapAfterClose ==
    /\ WillNotify
    /\ \E err \in NotifyResults :
          /\ notifyCalls' = Append(notifyCalls, [finding |-> finding, err |-> err])
          /\ IF err = ErrNil
             THEN pc' = "Notified" /\ UNCHANGED result
             ELSE /\ pc' = "Failed"
                  /\ result' = IF closeCalls = <<>> THEN err
                                ELSE [kind |-> "NotificationFailure",
                                      msg |-> "closed but not notified",
                                      cause |-> err]
    /\ steps' = Append(steps, "notify")
    /\ UNCHANGED <<rules, notifier, evt, finding, matchedIdx, closeCalls,
                   filters, verdict>>
    /\ UNCHANGED <<ctxDone, loaderVars, handlerVars>>

NotifyStep ==
    /\ WillNotify
    /\ \E err \in NotifyResults :
          /\ notifyCalls' = Append(notifyCalls, [finding |-> finding, err |-> err])
          /\ IF err = ErrNil
             THEN pc' = "Notified" /\ UNCHANGED result
             ELSE pc' = "Failed" /\ result' = err
    /\ steps' = Append(steps, "notify")
    /\ UNCHANGED <<rules, notifier, evt, finding, matchedIdx, closeCalls,
                   filters, verdict>>
    /\ UNCHANGED <<ctxDone, loaderVars, handlerVars>>

ReturnStep ==
    /\ \/ pc = "Notified"
       \/ pc \in {"Closed", "Unmatched"} /\ ~WillNotify
    /\ pc' = "Done"
    /\ result' = ErrNil
    /\ UNCHANGED <<rules, notifier, evt, finding, matchedIdx, closeCalls,
                   notifyCalls, steps, filters, verdict>>
    /\ UNCHANGED <<ctxDone, loaderVars, handlerVars>>

(* Inputs of the pipeline *)

MkRule(name, enabled, flt, statusID, comment, skip) ==
    [Name |-> name, Enabled |-> enabled, Filters |-> flt,
     Action |-> [StatusID |-> statusID, Comment |-> comment],
     SkipNotification |-> skip]

RulePool ==
    {MkRule("runner-binaries", TRUE,
            [NoFilters EXCEPT !.FindingTypes = <<ScenarioType>>,
                              !.ResourceTags = <<[Name |-> RunnerTag.name,
                                                  Value |-> RunnerTag.value]>>],
            5, "expected on runners", TRUE),
     MkRule("high-severity", TRUE, [NoFilters EXCEPT !.Severity = <<"High">>],
            3, "in progress", FALSE),
     MkRule("catch-all", TRUE, NoFilters, 4, "suppressed", FALSE),
     MkRule("catch-all-quiet", TRUE, NoFilters, 6, "archived", TRUE),
     MkRule("catch-all-off", FALSE, NoFilters, 2, "switched off", FALSE)}

PipelineResources ==
    {<<>>, <<RawResource("AWS::EC2::Instance", <<RunnerTag>>)>>}

WithCompliance(doc, c) ==
    IF c = "absent" THEN doc
    ELSE [doc EXCEPT !.obj = [compliance |-> [status |-> c]] @@ doc.obj]

RawFindings ==
    {WithCompliance(
         RawFindingDoc(uid, st, sv, <<t>>, "GuardDuty", "111111111111",
                       "us-east-1", rs), c) :
        uid \in {"f-1", "f-2"}, st \in {"New", "Resolved"},
        sv \in {"Critical", "High", "Medium", "Low"}, t \in TypeVals,
        rs \in PipelineResources, c \in {"absent", "Fail", "Pass"}}
    \cup {[json |-> "object", obj |-> <<>>], [json |-> "malformed"]}

Details ==
    {[json |-> "empty"], [json |-> "malformed"], [json |-> "null"],
     [json |-> "object", obj |-> <<>>],
     [json |-> "object", obj |-> [findings |-> <<>>]]}
    \cup {[json |-> "object", obj |-> [findings |-> <<r>>]] : r \in RawFindings}

Events ==
    {[EventID |-> "e-1", DetailType |-> dt, Detail |-> d] :
        dt \in {SupportedDetailType, "Something Else"}, d \in Details}

Init ==
    /\ rules \in SeqsUpTo(RulePool, MaxRules)
    /\ notifier \in BOOLEAN
    /\ evt \in Events
    /\ finding = NoFinding
    /\ pc = "Received"
    /\ matchedIdx = 0
    /\ closeCalls = <<>>
    /\ notifyCalls = <<>>
    /\ result = ErrPending
    /\ steps = <<>>
    /\ filters = NoFilters
    /\ verdict = "none"
    /\ ctxDone = "no"
    /\ LoaderIdle
    /\ HandlerIdle

Next ==
    \/ ParseEventStep
    \/ FindMatchStep
    \/ CloseStep
    \/ NotifyStep
    \/ ReturnStep

Spec == Init /\ [][Next]_vars

\* Every collaborator call returns, so an invocation that can take a step
\* eventually takes one.
SpecLive == Spec /\ WF_vars(Next)

\* The caller cancels ctx while the invocation is running.
CancelCtx ==
    /\ ctxDone = "no"
    /\ pc \in {"Received", "Parsed", "Matched", "Unmatched", "Closed", "Notified"}
    /\ ctxDone' = pc
    /\ UNCHANGED <<rules, notifier, evt, finding, pc, matchedIdx, closeCalls,
                   notifyCalls, result, steps, filters, verdict, loaderVars,
                   handlerVars>>

NextCancel == Next \/ CancelCtx

SpecCancel == Init /\ [][NextCancel]_vars

----------------------------------------------------------------------------
(* The alertability specification: IsAlertable applied to one decoded finding *)

AlertFindings ==
    {NewSecurityHubFinding(
         WithCompliance(
             RawFindingDoc("f-1", st, sv, <<>>, "Security Hub", "111111111111",
                           "us-east-1", <<>>), c)).finding :
        st \in {"New", "new", "InProgress", "Suppressed", "Resolved", ""},
        sv \in {"Critical", "High", "Medium", "Low", "Informational", "medium", ""},
        c \in {"absent", "Fail", "Pass", "fail", ""}}

InitAlert ==
    /\ finding \in AlertFindings
    /\ verdict = "none"
    /\ pc = "AlertInput"
    /\ filters = NoFilters
    /\ rules = <<>>
    /\ notifier = FALSE
    /\ evt = <<>>
    /\ matchedIdx = 0
    /\ closeCalls = <<>>
    /\ notifyCalls = <<>>
    /\ result = ErrPending
    /\ steps = <<>>
    /\ ctxDone = "no"
    /\ LoaderIdle
    /\ HandlerIdle

ApplyIsAlertable ==
    /\ pc = "AlertInput"
    /\ verdict' = IsAlertable(finding)
    /\ pc' = "AlertEvaluated"
    /\ UNCHANGED <<rules, notifier, evt, finding, matchedIdx, closeCalls,
                   notifyCalls, result, steps, filters>>
    /\ UNCHANGED <<ctxDone, loaderVars, handlerVars>>

NextAlert == ApplyIsAlertable

SpecAlert == InitAlert /\ [][NextAlert]_vars

----------------------------------------------------------------------------
(* Properties of the matching engine *)

Range(seq) == {seq[i] : i \in DOMAIN seq}

TypesSatisfied(f, flt) == Range(f.FindingInfo.Types) \cap Range(flt.FindingTypes) # {}
SeveritySatisfied(f, flt) == f.Severity \in Range(flt.Severity)
ProductSatisfied(f, flt) == f.Metadata.Product.Name \in Range(flt.ProductName)
ResourceTypesSatisfied(f, flt) ==
    \E r \in DOMAIN f.Resources : f.Resources[r].Type \in Range(flt.ResourceTypes)
ResourceTagsSatisfied(f, flt) ==
    \E r \in DOMAIN f.Resources : Range(flt.ResourceTags) \subseteq Range(f.Resources[r].Tags)
AccountsSatisfied(f, flt) == f.Cloud.Account.UID \in Range(flt.Accounts)
RegionsSatisfied(f, flt) == f.Cloud.Region \in Range(flt.Regions)

EveryCategorySatisfied(f, flt) ==
    /\ flt.FindingTypes = <<>> \/ TypesSatisfied(f, flt)
    /\ flt.Severity = <<>> \/ SeveritySatisfied(f, flt)
    /\ flt.ProductName = <<>> \/ ProductSatisfied(f, flt)
    /\ flt.ResourceTypes = <<>> \/ ResourceTypesSatisfied(f, flt)
    /\ flt.ResourceTags = <<>> \/ ResourceTagsSatisfied(f, flt)
    /\ flt.Accounts = <<>> \/ AccountsSatisfied(f, flt)
    /\ flt.Regions = <<>> \/ RegionsSatisfied(f, flt)

\* C2: matchesFilters returns true exactly when every non-empty category is
\* satisfied by the finding on its own (AND across categories, an empty
\* category constrains nothing, so the all-empty filter matches everything).
C2_AndAcrossCategories ==
    pc = "Evaluated" => (verdict <=> EveryCategorySatisfied(finding, filters))

\* severity=[High] and accounts=[111111111111] evaluated against a High
\* finding of account 222222222222, and rejected.
C2_Witness ==
    /\ pc = "Evaluated"
    /\ filters = [NoFilters EXCEPT !.Severity = <<"High">>,
                                   !.Accounts = <<"111111111111">>]
    /\ finding.Severity = "High"
    /\ finding.Cloud.Account.UID = "222222222222"
    /\ verdict = FALSE

OnlyResourceTags ==
    /\ filters.ResourceTags # <<>>
    /\ filters = OnlyCategory("ResourceTags", filters.ResourceTags)

\* C3: a non-empty resource-tags filter is satisfied exactly when one single
\* resource of the finding carries every required (name, value) pair; a
\* finding without resources never satisfies it.
C3_TagsOnOneResource ==
    (pc = "Evaluated" /\ OnlyResourceTags) =>
        /\ verdict <=>
              \E r \in 1..Len(finding.Resources) :
                 \A i \in 1..Len(filters.ResourceTags) :
                    \E t \in 1..Len(finding.Resources[r].Tags) :
                       /\ finding.Resources[r].Tags[t].Name = filters.ResourceTags[i].Name
                       /\ finding.Resources[r].Tags[t].Value = filters.ResourceTags[i].Value
        /\ Len(finding.Resources) = 0 => ~verdict

\* {provider: a} on resource 1 and {team: b} on resource 2 against a filter
\* requiring both: evaluated and rejected.
C3_Witness ==
    /\ pc = "Evaluated"
    /\ filters.ResourceTags = <<[Name |-> "provider", Value |-> "a"],
                                [Name |-> "team", Value |-> "b"]>>
    /\ Len(finding.Resources) = 2
    /\ finding.Resources[1].Tags = <<[Name |-> "provider", Value |-> "a"]>>
    /\ finding.Resources[2].Tags = <<[Name |-> "team", Value |-> "b"]>>
    /\ verdict = FALSE

SoleCategory(c) == filters[c] # <<>> /\ filters = OnlyCategory(c, filters[c])

\* C5: inside one category the entries are alternatives: with only that
\* category set, the filter is satisfied exactly when the finding's value
\* (any of its types, the type of any of its resources) equals some entry.
C5_OrWithinCategory ==
    pc = "Evaluated" =>
        /\ SoleCategory("Severity") =>
              (verdict <=> \E i \in 1..Len(filters.Severity) :
                              filters.Severity[i] = finding.Severity)
        /\ SoleCategory("ProductName") =>
              (verdict <=> \E i \in 1..Len(filters.ProductName) :
                              filters.ProductName[i] = finding.Metadata.Product.Name)
        /\ SoleCategory("Regions") =>
              (verdict <=> \E i \in 1..Len(filters.Regions) :
                              filters.Regions[i] = finding.Cloud.Region)
        /\ SoleCategory("Accounts") =>
              (verdict <=> \E i \in 1..Len(filters.Accounts) :
                              filters.Accounts[i] = finding.Cloud.Account.UID)
        /\ SoleCategory("FindingTypes") =>
              (verdict <=> \E i \in 1..Len(filters.FindingTypes) :
                              \E j \in 1..Len(finding.FindingInfo.Types) :
                                 finding.FindingInfo.Types[j] = filters.FindingTypes[i])
        /\ SoleCategory("ResourceTypes") =>
              (verdict <=> \E r \in 1..Len(finding.Resources) :
                              \E i \in 1..Len(filters.ResourceTypes) :
                                 finding.Resources[r].Type = filters.ResourceTypes[i])

\* A two-entry finding-type filter satisfied through its second entry only,
\* by the second type of the finding.
C5_Witness ==
    /\ pc = "Evaluated"
    /\ SoleCategory("FindingTypes")
    /\ Len(filters.FindingTypes) = 2
    /\ Len(finding.FindingInfo.Types) = 2
    /\ filters.FindingTypes[1] \notin Range(finding.FindingInfo.Types)
    /\ finding.FindingInfo.Types[1] \notin Range(filters.FindingTypes)
    /\ finding.FindingInfo.Types[2] = filters.FindingTypes[2]
    /\ verdict = TRUE

----------------------------------------------------------------------------
(* Properties of the pipeline *)

MatchDone == pc \in {"Matched", "Unmatched", "Closed", "Notified"}
                \/ (pc \in {"Done", "Failed"} /\ "match" \in Range(steps))

\* The rules a finding is eligible for: enabled, filters fully matching.
Eligible(f) ==
    {i \in 1..Len(rules) : rules[i].Enabled /\ matchesFilters(f, rules[i].Filters)}

\* C1: when FindMatchingRule returns a rule, it is the enabled, fully
\* matching rule of lowest index; earlier disabled or non-matching rules do
\* not hide a later enabled matching rule.
C1_FirstMatchWins ==
    MatchDone =>
        /\ matchedIdx > 0 =>
              /\ matchedIdx \in Eligible(finding)
              /\ \A j \in 1..(matchedIdx - 1) : j \notin Eligible(finding)
        /\ Eligible(finding) # {} => matchedIdx > 0

\* Two enabled rules with different actions both match; the first is returned.
C1_Witness ==
    /\ pc = "Matched"
    /\ Len(rules) >= 2
    /\ {1, 2} \subseteq Eligible(finding)
    /\ rules[1].Action # rules[2].Action
    /\ matchedIdx = 1

\* C4: an empty or all-disabled rule sequence never matches, and a disabled
\* rule is never the one returned.
C4_DisabledNeverMatches ==
    MatchDone =>
        /\ (\A i \in 1..Len(rules) : ~rules[i].Enabled) => matchedIdx = 0
        /\ matchedIdx > 0 => rules[matchedIdx].Enabled

\* A disabled rule whose (empty) filters match the finding comes first and
\* is passed over.
C4_Witness ==
    /\ MatchDone
    /\ Len(rules) >= 1
    /\ ~rules[1].Enabled
    /\ EveryCategorySatisfied(finding, rules[1].Filters)
    /\ \A i \in 1..Len(rules) : ~rules[i].Enabled
    /\ pc = "Unmatched"

AfterClose == pc \in {"Closed", "Notified", "Done", "Failed"} /\ matchedIdx > 0

FirstEligible(f) == CHOOSE i \in Eligible(f) : \A j \in Eligible(f) : i <= j

\* C6: one invocation calls the closer at most once and the notifier at most
\* once; once a rule matched, the single close request carries the parsed
\* finding's UID and the status id and comment of the first matching rule.
C6_SingleCloseFirstRule ==
    /\ Len(closeCalls) <= 1
    /\ Len(notifyCalls) <= 1
    /\ AfterClose =>
          /\ Len(closeCalls) = 1
          /\ closeCalls[1].input =
                [MetadataUids |-> <<finding.Metadata.UID>>,
                 StatusId |-> rules[FirstEligible(finding)].Action.StatusID,
                 Comment  |-> rules[FirstEligible(finding)].Action.Comment]
          /\ finding = NewSecurityHubFinding(evt.Detail.obj.findings[1]).finding

\* The invocation is over, two rules with different actions were eligible,
\* the finding has a UID, and one close was issued.
C6_Witness ==
    /\ pc = "Done"
    /\ Len(rules) >= 2
    /\ {1, 2} \subseteq Eligible(finding)
    /\ rules[1].Action # rules[2].Action
    /\ finding.Metadata.UID = "f-2"
    /\ Len(closeCalls) = 1
    /\ Len(notifyCalls) = 1

CloseFailed(c) == c.resp.err # "" \/ c.resp.UnprocessedFindings # <<>>

\* C7: when the close fails (remote error, or an unprocessed finding in the
\* response) Process returns an error wrapping the close failure and never
\* calls the notifier, whatever the rule's skip flag and the alertability.
C7_CloseFailureAborts ==
    (closeCalls # <<>> /\ CloseFailed(closeCalls[1])) =>
        /\ pc = "Failed"
        /\ result.kind = "ActionFailure"
        /\ IF closeCalls[1].resp.err # ""
           THEN result.cause.cause = closeCalls[1].resp.err
           ELSE /\ result.cause.uid = finding.Metadata.UID
                /\ result.cause.code = closeCalls[1].resp.UnprocessedFindings[1].ErrorCode
                /\ result.cause.message =
                      closeCalls[1].resp.UnprocessedFindings[1].ErrorMessage
        /\ notifyCalls = <<>>

\* The response lists an unprocessed finding; the rule does not skip
\* notification, a notifier is configured and the finding is alertable.
C7_Witness ==
    /\ pc = "Failed"
    /\ closeCalls # <<>>
    /\ closeCalls[1].resp.UnprocessedFindings # <<>>
    /\ ~rules[matchedIdx].SkipNotification
    /\ notifier
    /\ IsAlertable(finding)

CloseSucceeded == closeCalls # <<>> /\ ~CloseFailed(closeCalls[1])

\* C8: after a successful close the notifier is called iff the matched rule
\* does not skip notification and a notifier is configured; with
\* skip_notification the invocation closes, never notifies and succeeds.
C8_NotifyAfterCloseIffNotSkipped ==
    /\ (CloseSucceeded /\ pc \in {"Notified", "Done", "Failed"}) =>
          (Len(notifyCalls) = 1
              <=> (~rules[matchedIdx].SkipNotification /\ notifier))
    /\ (CloseSucceeded /\ rules[matchedIdx].SkipNotification) =>
          /\ notifyCalls = <<>>
          /\ pc \in {"Closed", "Done"}
          /\ pc = "Done" => result = ErrNil

\* Scenario A: type and tag rule with status 5 and skip_notification, a
\* notifier configured; closed with status_id 5, nothing notified, success.
C8_Witness ==
    /\ pc = "Done"
    /\ notifier
    /\ matchedIdx > 0
    /\ rules[matchedIdx].Filters.FindingTypes = <<ScenarioType>>
    /\ rules[matchedIdx].Filters.ResourceTags =
          <<[Name |-> "component-type", Value |-> "github-action-runners"]>>
    /\ rules[matchedIdx].SkipNotification
    /\ closeCalls[1].input.StatusId = 5
    /\ notifyCalls = <<>>
    /\ result = ErrNil

\* C9: when no rule matches the closer is never called; the notifier is
\* called exactly once if configured and the finding is alertable, otherwise
\* nothing is called and Process returns success.
C9_UnmatchedPath ==
    (MatchDone /\ matchedIdx = 0) =>
        /\ closeCalls = <<>>
        /\ pc \in {"Notified", "Done", "Failed"} =>
              IF notifier /\ IsAlertable(finding)
              THEN Len(notifyCalls) = 1 /\ notifyCalls[1].finding = finding
              ELSE notifyCalls = <<>> /\ pc = "Done" /\ result = ErrNil

\* Scenario B: status New, severity High, rules present but none matching,
\* notifier configured: one notification, no close.
C9_Witness ==
    /\ pc = "Done"
    /\ matchedIdx = 0
    /\ Len(rules) >= 1
    /\ finding # NoFinding
    /\ finding.Status = "New"
    /\ finding.Severity = "High"
    /\ notifier
    /\ Len(notifyCalls) = 1
    /\ closeCalls = <<>>

\* C10: a detail_type other than "Findings Imported V2" makes Process fail
\* with UnsupportedEventType before the detail is decoded, a finding parsed,
\* the engine consulted or a collaborator called, whatever the detail holds.
C10_UnsupportedTypeFirst ==
    (evt.DetailType # "Findings Imported V2" /\ pc # "Received") =>
        /\ pc = "Failed"
        /\ result.kind = "UnsupportedEventType"
        /\ steps = <<"validate">>
        /\ finding = NoFinding
        /\ matchedIdx = 0
        /\ closeCalls = <<>>
        /\ notifyCalls = <<>>

\* The unsupported event also carries an undecodable detail.
C10_Witness ==
    /\ pc = "Failed"
    /\ evt.DetailType = "Something Else"
    /\ evt.Detail.json \in {"empty", "malformed"}
    /\ result.kind = "UnsupportedEventType"

----------------------------------------------------------------------------
(* Properties of the pipeline: failures, ordering, alertability *)

NoCollaboratorCalled == closeCalls = <<>> /\ notifyCalls = <<>>

\* C11: a failure before matching (undecodable detail, empty findings array,
\* unparsable finding) is what Process returns, and neither the closer nor
\* the notifier has been called.
C11_ParseFailuresTouchNothing ==
    /\ (pc = "Failed" /\ "match" \notin Range(steps)) =>
          /\ NoCollaboratorCalled
          /\ matchedIdx = 0
          /\ result.kind \in {"UnsupportedEventType", "DetailDecodeError",
                              "EmptyFindingsPayload", "MalformedFinding"}
    /\ (evt.DetailType = "Findings Imported V2" /\ pc # "Received") =>
          /\ evt.Detail.json \in {"empty", "malformed"} =>
                pc = "Failed" /\ result.kind = "DetailDecodeError"
          /\ (evt.Detail.json = "null"
                \/ (evt.Detail.json = "object"
                      /\ ("findings" \notin DOMAIN evt.Detail.obj
                            \/ evt.Detail.obj.findings = <<>>))) =>
                pc = "Failed" /\ result.kind = "EmptyFindingsPayload"
          /\ (evt.Detail.json = "object" /\ "findings" \in DOMAIN evt.Detail.obj
                /\ evt.Detail.obj.findings # <<>>
                /\ evt.Detail.obj.findings[1].json # "object") =>
                pc = "Failed" /\ result.kind = "MalformedFinding"

\* An unparsable finding, with a notifier configured and an enabled rule
\* that matches everything in first position.
C11_Witness ==
    /\ pc = "Failed"
    /\ result.kind = "MalformedFinding"
    /\ notifier
    /\ Len(rules) >= 1
    /\ rules[1].Enabled
    /\ rules[1].Filters = NoFilters

NotifyFailed == notifyCalls # <<>> /\ notifyCalls[1].err # ErrNil

\* C12: when the notification fails after a successful close, Process
\* returns the notification failure and the close stands: the one successful
\* close request with the rule's target status is the only closer call.
C12_NotifyFailureKeepsClose ==
    (CloseSucceeded /\ NotifyFailed) =>
        /\ pc = "Failed"
        /\ result = notifyCalls[1].err
        /\ result.kind = "NotificationFailure"
        /\ Len(closeCalls) = 1
        /\ closeCalls[1].input.StatusId = rules[matchedIdx].Action.StatusID

\* A close that succeeded followed by a notification that failed.
C12_Witness ==
    /\ pc = "Failed"
    /\ CloseSucceeded
    /\ NotifyFailed
    /\ closeCalls[1].input.StatusId = 3

Rank(p) ==
    CASE p = "Received" -> 0
      [] p = "Parsed" -> 1
      [] p \in {"Matched", "Unmatched"} -> 2
      [] p = "Closed" -> 3
      [] p = "Notified" -> 4
      [] p \in {"Done", "Failed"} -> 5

StepOrder == <<"validate", "decode", "extract", "parse", "match", "close", "notify">>

StepPos(op) == CHOOSE i \in 1..Len(StepOrder) : StepOrder[i] = op

StepsInOrder ==
    \A i, j \in 1..Len(steps) : i < j => StepPos(steps[i]) < StepPos(steps[j])

\* C13: Process starts in Received, only moves forward through Parsed,
\* Matched or Unmatched, Closed, Notified, ends in Done or Failed when the
\* collaborators return, performs parse, match, close, notify in that order,
\* and in a matched invocation never notifies before it has closed.
C13_SinglePass ==
    /\ pc = "Received"
    /\ [](/\ pc \in {"Received", "Parsed", "Matched", "Unmatched", "Closed",
                     "Notified", "Done", "Failed"}
          /\ StepsInOrder
          /\ (notifyCalls # <<>> /\ matchedIdx > 0) => closeCalls # <<>>)
    /\ [][Rank(pc') > Rank(pc)]_vars
    /\ <>(pc \in {"Done", "Failed"})

\* An invocation that went through every step.
C13_Witness ==
    /\ pc = "Done"
    /\ steps = StepOrder
    /\ Len(closeCalls) = 1
    /\ Len(notifyCalls) = 1

\* C18: IsAlertable is true exactly for a finding of status "New" whose
\* compliance record is present with status "Fail" or whose severity is
\* Critical, High or Medium.
C18_IsAlertable ==
    pc = "AlertEvaluated" =>
        (verdict <=>
            /\ finding.Status = "New"
            /\ \/ (finding.Compliance # <<>> /\ finding.Compliance[1].Status = "Fail")
               \/ finding.Severity \in {"Critical", "High", "Medium"})

\* New / Low with a failed compliance check, evaluated alertable.
C18_Witness ==
    /\ pc = "AlertEvaluated"
    /\ finding.Status = "New"
    /\ finding.Severity = "Low"
    /\ finding.Compliance # <<>>
    /\ finding.Compliance[1].Status = "Fail"
    /\ verdict = TRUE

\* C19: the error Process returns on a notification failure is the
\* notifier's error itself on both paths, so it is the same value after a
\* successful close as on the unmatched path and says nothing about a close.
C19_NotifyFailureHidesClose ==
    (pc = "Failed" /\ NotifyFailed) =>
        /\ result = notifyCalls[1].err
        /\ result \in NotifyResults

\* The notification of an unmatched, alertable finding failed: no close.
C19_Witness ==
    /\ pc = "Failed"
    /\ NotifyFailed
    /\ closeCalls = <<>>
    /\ matchedIdx = 0

\* C14: when ctx is cancelled before a collaborator is called, Process
\* reports a Cancelled error, not success and not the wrapping of a remote
\* failure.
C14_CancelledIsReported ==
    (/\ pc \in {"Done", "Failed"}
     /\ \/ ctxDone \in {"Received", "Parsed", "Matched", "Unmatched"}
              /\ (closeCalls # <<>> \/ notifyCalls # <<>>)
        \/ ctxDone = "Closed" /\ notifyCalls # <<>>)
        => result.kind = "Cancelled"

----------------------------------------------------------------------------
(* internal/filters: the S3 rules loader *)

MaxKeys == 2

\* A document is the sequence of its JSON tokens.  A value token carries one
\* JSON value: a rule object whose fields have the types of AutoCloseRule
\* ("object"), an object with a field of another type ("mistyped"), a scalar
\* ("string"), null, or text that is no JSON value ("malformed").
WS == [t |-> "ws", json |-> "none", obj |-> <<>>]
LB == [t |-> "[", json |-> "none", obj |-> <<>>]
RB == [t |-> "]", json |-> "none", obj |-> <<>>]
COMMA == [t |-> ",", json |-> "none", obj |-> <<>>]
Val(kind, o) == [t |-> "value", json |-> kind, obj |-> o]

ZeroRule == MkRule("", FALSE, NoFilters, 0, "", FALSE)

DecodeTagFilter(t) ==
    [Name |-> Field(t, "name", ""), Value |-> Field(t, "value", "")]

DecodeRuleFilters(o) ==
    [FindingTypes |-> Field(o, "finding_types", <<>>),
     Severity |-> Field(o, "severity", <<>>),
     ProductName |-> Field(o, "product_name", <<>>),
     ResourceTypes |-> Field(o, "resource_types", <<>>),
     ResourceTags |->
         [i \in 1..Len(Field(o, "resource_tags", <<>>)) |->
             DecodeTagFilter(Field(o, "resource_tags", <<>>)[i])],
     Accounts |-> Field(o, "accounts", <<>>),
     Regions |-> Field(o, "regions", <<>>)]

DecodeRuleAction(o) ==
    [StatusID |-> Field(o, "status_id", 0), Comment |-> Field(o, "comment", "")]

\* json.Unmarshal of one object into an AutoCloseRule: a missing key leaves
\* the zero value of its field.
DecodeRule(o) ==
    [Name |-> Field(o, "name", ""),
     Enabled |-> Field(o, "enabled", FALSE),
     Filters |-> DecodeRuleFilters(Field(o, "filters", <<>>)),
     Action |-> DecodeRuleAction(Field(o, "action", <<>>)),
     SkipNotification |-> Field(o, "skip_notification", FALSE)]

RECURSIVE TrimLeft(_)
TrimLeft(data) ==
    IF data # <<>> /\ Head(data).t = "ws" THEN TrimLeft(Tail(data)) ELSE data

RECURSIVE TrimRight(_)
TrimRight(data) ==
    IF data # <<>> /\ data[Len(data)].t = "ws"
    THEN TrimRight(SubSeq(data, 1, Len(data) - 1))
    ELSE data

TrimSpace(data) == TrimRight(TrimLeft(data))

\* The scanner of encoding/json skips the white space between tokens.
RECURSIVE SkipSpace(_)
SkipSpace(data) ==
    IF data = <<>> THEN <<>>
    ELSE IF Head(data).t = "ws" THEN SkipSpace(Tail(data))
    ELSE <<Head(data)>> \o SkipSpace(Tail(data))

ErrSyntax == [kind |-> "SyntaxError"]
ErrType == [kind |-> "UnmarshalTypeError"]

\* Decoding one value into an AutoCloseRule; the syntax was checked before.
UnmarshalValue(tok) ==
    IF tok.json = "object" THEN [rule |-> DecodeRule(tok.obj), err |-> ErrNil]
    ELSE IF tok.json = "null" THEN [rule |-> ZeroRule, err |-> ErrNil]
    ELSE [rule |-> ZeroRule, err |-> ErrType]

\* The elements of an array after its "[": value ("," value)* "]" and the
\* end of the input.  Returns the rules decoded and the first error.
RECURSIVE UnmarshalElements(_, _)
UnmarshalElements(toks, acc) ==
    IF Len(toks) < 2 THEN [rules |-> <<>>, err |-> ErrSyntax]
    ELSE IF toks[1].t # "value" \/ toks[1].json = "malformed"
    THEN [rules |-> <<>>, err |-> ErrSyntax]
    ELSE IF toks[2].t = "]"
    THEN IF Len(toks) > 2 THEN [rules |-> <<>>, err |-> ErrSyntax]
         ELSE [rules |-> Append(acc.rules, UnmarshalValue(toks[1]).rule),
               err |-> IF acc.err # ErrNil THEN acc.err
                       ELSE UnmarshalValue(toks[1]).err]
    ELSE IF toks[2].t = ","
    THEN UnmarshalElements(
             SubSeq(toks, 3, Len(toks)),
             [rules |-> Append(acc.rules, UnmarshalValue(toks[1]).rule),
              err |-> IF acc.err # ErrNil THEN acc.err
                      ELSE UnmarshalValue(toks[1]).err])
    ELSE [rules |-> <<>>, err |-> ErrSyntax]

\* json.Unmarshal(data, &rules) for rules of type []AutoCloseRule.
UnmarshalRules(data) ==
    LET toks == SkipSpace(data) IN
    IF toks = <<>> THEN [rules |-> <<>>, err |-> ErrSyntax]
    ELSE IF toks[1].t = "value"
    THEN IF toks[1].json = "malformed" \/ Len(toks) > 1
         THEN [rules |-> <<>>, err |-> ErrSyntax]
         ELSE IF toks[1].json = "null" THEN [rules |-> <<>>, err |-> ErrNil]
         ELSE [rules |-> <<>>, err |-> ErrType]
    ELSE IF toks[1].t # "[" THEN [rules |-> <<>>, err |-> ErrSyntax]
    ELSE IF Len(toks) = 2 /\ toks[2].t = "]" THEN [rules |-> <<>>, err |-> ErrNil]
    ELSE UnmarshalElements(Tail(toks), [rules |-> <<>>, err |-> ErrNil])

\* json.Unmarshal(data, &rule) for rule of type AutoCloseRule.
UnmarshalRule(data) ==
    LET toks == SkipSpace(data) IN
    IF toks = <<>> THEN [rule |-> ZeroRule, err |-> ErrSyntax]
    ELSE IF toks[1].t = "value"
    THEN IF toks[1].json = "malformed" \/ Len(toks) > 1
         THEN [rule |-> ZeroRule, err |-> ErrSyntax]
         ELSE UnmarshalValue(toks[1])
    ELSE IF toks[1].t = "[" /\ UnmarshalRules(toks).err # ErrSyntax
    THEN [rule |-> ZeroRule, err |-> ErrType]
    ELSE [rule |-> ZeroRule, err |-> ErrSyntax]

Wrap(err, msg) == [kind |-> "wrapped", msg |-> msg, cause |-> err]

parseRules_NoTrim(data) ==
    LET many == UnmarshalRules(data)
        one == UnmarshalRule(data)
    IN  IF Len(data) = 0 THEN [rules |-> <<>>, err |-> ErrNil]
        ELSE IF data[1].t = "["
        THEN IF many.err # ErrNil
             THEN [rules |-> <<>>,
                   err |-> Wrap(many.err, "failed to parse rules array")]
             ELSE [rules |-> many.rules, err |-> ErrNil]
        ELSE IF one.err # ErrNil
        THEN [rules |-> <<>>,
              err |-> Wrap(one.err, "failed to parse single rule")]
        ELSE [rules |-> <<one.rule>>, err |-> ErrNil]

parseRules_AcceptAnything(data) ==
    LET d == TrimSpace(data) IN
    IF Len(d) = 0 THEN [rules |-> <<>>, err |-> ErrNil]
    ELSE IF d[1].t = "["
    THEN [rules |-> IF UnmarshalRules(d).err # ErrNil THEN <<>>
                    ELSE UnmarshalRules(d).rules,
          err |-> ErrNil]
    ELSE [rules |-> IF UnmarshalRule(d).err # ErrNil THEN <<>>
                    ELSE <<UnmarshalRule(d).rule>>,
          err |-> ErrNil]

parseRules(data) ==
    LET d == TrimSpace(data)
        many == UnmarshalRules(d)
        one == UnmarshalRule(d)
    IN  IF Len(d) = 0 THEN [rules |-> <<>>, err |-> ErrNil]
        ELSE IF d[1].t = "["
        THEN IF many.err # ErrNil
             THEN [rules |-> <<>>,
                   err |-> Wrap(many.err, "failed to parse rules array")]
             ELSE [rules |-> many.rules, err |-> ErrNil]
        ELSE IF one.err # ErrNil
        THEN [rules |-> <<>>,
              err |-> Wrap(one.err, "failed to parse single rule")]
        ELSE [rules |-> <<one.rule>>, err |-> ErrNil]

ErrGetObject == [kind |-> "GetObjectError"]
ErrReadBody == [kind |-> "ReadError"]
ErrListObjects == [kind |-> "ListObjectsError"]

\* The object of bucket b stored under key.
ObjectAt(b, key) == CHOOSE o \in Range(b.objects) : o.Key = key

loadRulesFromObject(b, key) ==
    LET o == ObjectAt(b, key) IN
    IF o.GetErr THEN [rules |-> <<>>, err |-> ErrGetObject]
    ELSE IF o.ReadErr
    THEN [rules |-> <<>>, err |-> Wrap(ErrReadBody, "failed to read object body")]
    ELSE parseRules(o.Body)

\* The keys of one page: an entry without a key is skipped.
RECURSIVE PageKeys(_)
PageKeys(contents) ==
    IF contents = <<>> THEN <<>>
    ELSE Head(contents).Key \o PageKeys(Tail(contents))

RECURSIVE listObjectsFrom(_, _)
listObjectsFrom(pages, keys) ==
    IF pages = <<>> THEN [keys |-> keys, err |-> ErrNil]
    ELSE IF Head(pages).err THEN [keys |-> <<>>, err |-> ErrListObjects]
    ELSE listObjectsFrom(Tail(pages), keys \o PageKeys(Head(pages).Contents))

listObjects(b) == listObjectsFrom(b.pages, <<>>)

HasSuffix_AnyKey(key, suffix) == TRUE

HasSuffix(key, suffix) == key.ext = suffix

\* The loop of LoadRules; fetched is the keys GetObject was called with.
RECURSIVE LoadRulesFrom(_, _, _, _)
LoadRulesFrom(b, keys, allRules, fetched) ==
    IF keys = <<>>
    THEN IF Len(allRules) = 0
         THEN [rules |-> <<>>, err |-> [kind |-> "no rules loaded"],
               fetched |-> fetched]
         ELSE [rules |-> allRules, err |-> ErrNil, fetched |-> fetched]
    ELSE IF ~HasSuffix(Head(keys), ".json")
    THEN LoadRulesFrom(b, Tail(keys), allRules, fetched)
    ELSE LET got == loadRulesFromObject(b, Head(keys)) IN
         IF got.err # ErrNil
         THEN [rules |-> <<>>,
               err |-> Wrap(got.err, "failed to load rules from object"),
               fetched |-> Append(fetched, Head(keys))]
         ELSE LoadRulesFrom(b, Tail(keys), allRules \o got.rules,
                            Append(fetched, Head(keys)))

LoadRules_AllowEmpty(b) ==
    LET listed == listObjects(b)
        scanned == LoadRulesFrom(b, listed.keys, <<>>, <<>>)
    IN  IF listed.err # ErrNil
        THEN [rules |-> <<>>,
              err |-> Wrap(listed.err, "failed to list S3 objects"),
              fetched |-> <<>>]
        ELSE IF scanned.err = [kind |-> "no rules loaded"]
        THEN [scanned EXCEPT !.err = ErrNil]
        ELSE scanned

LoadRules(b) ==
    LET listed == listObjects(b) IN
    IF listed.err # ErrNil
    THEN [rules |-> <<>>,
          err |-> Wrap(listed.err, "failed to list S3 objects"),
          fetched |-> <<>>]
    ELSE IF Len(listed.keys) = 0
    THEN [rules |-> <<>>, err |-> [kind |-> "no objects found"],
          fetched |-> <<>>]
    ELSE LoadRulesFrom(b, listed.keys, <<>>, <<>>)

(* Inputs of the loader *)

RawRules ==
    {[name |-> "s3-high", enabled |-> TRUE,
      filters |-> [severity |-> <<"High">>],
      action |-> [status_id |-> 3, comment |-> "from s3"],
      skip_notification |-> FALSE],
     [name |-> "s3-runners", enabled |-> TRUE,
      filters |-> [finding_types |-> <<ScenarioType>>,
                   resource_tags |-> <<RunnerTag>>],
      action |-> [status_id |-> 5, comment |-> "expected on runners"],
      skip_notification |-> TRUE],
     [name |-> "s3-partial"]}

GoodRule == Val("object", CHOOSE r \in RawRules : r.name = "s3-high")
OtherRule == Val("object", CHOOSE r \in RawRules : r.name = "s3-runners")
PartialRule == Val("object", CHOOSE r \in RawRules : r.name = "s3-partial")

WellFormedBodies ==
    {<<>>, <<WS>>, <<GoodRule>>, <<WS, OtherRule, WS>>, <<Val("null", <<>>)>>,
     <<LB, RB>>, <<LB, GoodRule, COMMA, WS, PartialRule, RB>>}

MalformedBodies ==
    {<<Val("malformed", <<>>)>>, <<Val("mistyped", <<>>)>>,
     <<Val("string", <<>>)>>, <<GoodRule, OtherRule>>,
     <<LB, GoodRule, COMMA, RB>>, <<WS, LB, GoodRule>>,
     <<LB, GoodRule, COMMA, Val("mistyped", <<>>), RB>>, <<RB>>}

\* What the bucket holds under one key, the key's name aside.
StoredObjects ==
    {[ext |-> ".json", GetErr |-> FALSE, ReadErr |-> FALSE, Body |-> body] :
        body \in WellFormedBodies \cup MalformedBodies}
    \cup {[ext |-> ".json", GetErr |-> TRUE, ReadErr |-> FALSE, Body |-> <<>>],
          [ext |-> ".json", GetErr |-> FALSE, ReadErr |-> TRUE, Body |-> <<>>],
          [ext |-> ".txt", GetErr |-> FALSE, ReadErr |-> FALSE,
           Body |-> <<Val("malformed", <<>>)>>],
          [ext |-> ".JSON", GetErr |-> TRUE, ReadErr |-> FALSE, Body |-> <<>>]}

KeyOf(i, o) == [stem |-> i, ext |-> o.ext]

ObjectsOf(stored) ==
    [i \in 1..Len(stored) |->
        [Key |-> KeyOf(i, stored[i]), GetErr |-> stored[i].GetErr,
         ReadErr |-> stored[i].ReadErr, Body |-> stored[i].Body]]

Entries(objects, from, to) ==
    [i \in 1..(to - from + 1) |-> [Key |-> <<objects[from + i - 1].Key>>]]

Page(contents) == [err |-> FALSE, Contents |-> contents]
FailedPage == [err |-> TRUE, Contents |-> <<>>]
NoKeyEntry == [Key |-> <<>>]

\* The ways ListObjectsV2 can page the keys of a bucket, and fail.
Listings(objects) ==
    LET n == Len(objects) IN
    {<<Page(Entries(objects, 1, n))>>,
     <<Page(<<NoKeyEntry>> \o Entries(objects, 1, n))>>,
     <<FailedPage>>}
    \cup {<<Page(Entries(objects, 1, k)), Page(Entries(objects, k + 1, n))>> :
            k \in 1..n}
    \cup {<<Page(Entries(objects, 1, k)), FailedPage>> : k \in 1..n}

InitLoader ==
    /\ \E stored \in SeqsUpTo(StoredObjects, MaxKeys) :
          \E pages \in Listings(ObjectsOf(stored)) :
             bucket = [objects |-> ObjectsOf(stored), pages |-> pages]
    /\ loaded = <<>>
    /\ payload = <<>>
    /\ parsed = <<>>
    /\ pc = "LoaderInput"
    /\ rules = <<>>
    /\ notifier = FALSE
    /\ evt = <<>>
    /\ finding = NoFinding
    /\ matchedIdx = 0
    /\ closeCalls = <<>>
    /\ notifyCalls = <<>>
    /\ result = ErrPending
    /\ steps = <<>>
    /\ filters = NoFilters
    /\ verdict = "none"
    /\ ctxDone = "no"
    /\ HandlerIdle

ApplyLoadRules ==
    /\ pc = "LoaderInput"
    /\ loaded' = <<LoadRules(bucket)>>
    /\ pc' = "Loaded"
    /\ UNCHANGED <<rules, notifier, evt, finding, matchedIdx, closeCalls,
                   notifyCalls, result, steps, filters, verdict, ctxDone,
                   bucket, payload, parsed, handlerVars>>

NextLoader == ApplyLoadRules

SpecLoader == InitLoader /\ [][NextLoader]_vars

(* Properties of the loader *)

\* The keys a complete listing of the bucket returns.
ListedKeys == listObjects(bucket).keys

ListingFails == \E i \in 1..Len(bucket.pages) : bucket.pages[i].err

\* A document is well formed when it is empty, one rule object or null, or
\* an array of rule objects and nulls separated by commas.
IsRuleValue(tok) == tok.t = "value" /\ tok.json \in {"object", "null"}

WellFormed(body) ==
    LET s == SelectSeq(body, LAMBDA tok : tok.t # "ws") IN
    \/ Len(s) = 0
    \/ Len(s) = 1 /\ IsRuleValue(s[1])
    \/ /\ Len(s) >= 2
       /\ s[1].t = "[" /\ s[Len(s)].t = "]"
       /\ Len(s) = 2 \/ Len(s) % 2 = 1
       /\ \A i \in 2..(Len(s) - 1) :
            IF i % 2 = 0 THEN IsRuleValue(s[i]) ELSE s[i].t = ","

\* A listed object with a .json key that cannot be fetched, cannot be read
\* or holds a malformed document.
BadObject(o) ==
    /\ o.Key.ext = ".json"
    /\ \E i \in 1..Len(ListedKeys) : ListedKeys[i] = o.Key
    /\ o.GetErr \/ o.ReadErr \/ ~WellFormed(o.Body)

\* C20: when the listing fails, or a listed .json object cannot be fetched
\* or holds a malformed document, LoadRules returns an error and no rules,
\* wherever the bad object stands among the keys.
C20_AllOrNothing ==
    (/\ pc = "Loaded"
     /\ ListingFails \/ \E i \in 1..Len(bucket.objects) :
                           BadObject(bucket.objects[i]))
        => /\ loaded[1].err # ErrNil
           /\ loaded[1].rules = <<>>

\* A malformed document stands after an object that holds valid rules.
C20_Witness ==
    /\ pc = "Loaded"
    /\ ~ListingFails
    /\ Len(bucket.objects) >= 2
    /\ ~BadObject(bucket.objects[1])
    /\ bucket.objects[1].Key.ext = ".json"
    /\ Len(parseRules(bucket.objects[1].Body).rules) > 0
    /\ BadObject(bucket.objects[2])
    /\ ~WellFormed(bucket.objects[2].Body)
    /\ loaded[1].err # ErrNil
    /\ loaded[1].rules = <<>>

----------------------------------------------------------------------------
(* internal/app and cmd/lambda: configuration, construction of the App and *)
(* the handler invocations of one process                                  *)

MaxProcs == 2

Procs == 1..MaxProcs

\* A JSON string value carries the text it holds, as the tokens of that text.
Str(content) == Val("string", [content |-> content])

StringContent(tok) == Field(tok.obj, "content", <<>>)

\* parseAutoCloseRules: a JSON array of rules, or a JSON string holding one.
parseAutoCloseRules_Unescaping(input) ==
    LET direct == UnmarshalRules(input)
        toks == SkipSpace(input)
    IN  IF direct.err = ErrNil THEN [rules |-> direct.rules, err |-> ErrNil]
        ELSE IF ~(Len(toks) = 1 /\ toks[1].t = "value" /\ toks[1].json = "string")
        THEN [rules |-> <<>>,
              err |-> Wrap(IF direct.err = ErrSyntax THEN ErrSyntax ELSE ErrType,
                           "invalid JSON format - expected array or JSON-encoded string")]
        ELSE LET inner == SkipSpace(StringContent(toks[1])) IN
             IF UnmarshalRules(inner).err = ErrNil
             THEN [rules |-> UnmarshalRules(inner).rules, err |-> ErrNil]
             ELSE IF Len(inner) = 1 /\ inner[1].t = "value"
                     /\ inner[1].json = "string"
                     /\ UnmarshalRules(StringContent(inner[1])).err = ErrNil
             THEN [rules |-> UnmarshalRules(StringContent(inner[1])).rules, err |-> ErrNil]
             ELSE [rules |-> <<>>,
                   err |-> Wrap(UnmarshalRules(inner).err,
                                "invalid JSON in encoded string")]

parseAutoCloseRules(input) ==
    LET direct == UnmarshalRules(input)
        toks == SkipSpace(input)
    IN  IF direct.err = ErrNil THEN [rules |-> direct.rules, err |-> ErrNil]
        ELSE IF ~(Len(toks) = 1 /\ toks[1].t = "value" /\ toks[1].json = "string")
        THEN [rules |-> <<>>,
              err |-> Wrap(IF direct.err = ErrSyntax THEN ErrSyntax ELSE ErrType,
                           "invalid JSON format - expected array or JSON-encoded string")]
        ELSE LET encoded == UnmarshalRules(StringContent(toks[1])) IN
             IF encoded.err # ErrNil
             THEN [rules |-> <<>>,
                   err |-> Wrap(encoded.err, "invalid JSON in encoded string")]
             ELSE [rules |-> encoded.rules, err |-> ErrNil]

NoConfig ==
    [AutoCloseRules |-> <<>>, AutoCloseRulesS3Bucket |-> "",
     SlackToken |-> "", SlackChannel |-> "", SlackEnabled |-> FALSE]

NewConfig_TokenAlone(e) ==
    IF e.APP_AUTO_CLOSE_RULES # <<>>
       /\ parseAutoCloseRules(e.APP_AUTO_CLOSE_RULES).err # ErrNil
    THEN [cfg |-> NoConfig,
          err |-> Wrap(parseAutoCloseRules(e.APP_AUTO_CLOSE_RULES).err,
                       "failed to parse APP_AUTO_CLOSE_RULES")]
    ELSE IF e.APP_SLACK_TOKEN = "" /\ e.APP_SLACK_CHANNEL # ""
    THEN [cfg |-> NoConfig,
          err |-> [kind |-> "APP_SLACK_CHANNEL requires APP_SLACK_TOKEN"]]
    ELSE [cfg |->
            [AutoCloseRules |->
                 IF e.APP_AUTO_CLOSE_RULES # <<>>
                 THEN parseAutoCloseRules(e.APP_AUTO_CLOSE_RULES).rules
                 ELSE <<>>,
             AutoCloseRulesS3Bucket |-> e.APP_AUTO_CLOSE_RULES_S3_BUCKET,
             SlackToken |-> e.APP_SLACK_TOKEN,
             SlackChannel |-> e.APP_SLACK_CHANNEL,
             SlackEnabled |-> e.APP_SLACK_TOKEN # ""],
          err |-> ErrNil]

\* NewConfig reads the environment e of the process.
NewConfig(e) ==
    IF e.APP_AUTO_CLOSE_RULES # <<>>
       /\ parseAutoCloseRules(e.APP_AUTO_CLOSE_RULES).err # ErrNil
    THEN [cfg |-> NoConfig,
          err |-> Wrap(parseAutoCloseRules(e.APP_AUTO_CLOSE_RULES).err,
                       "failed to parse APP_AUTO_CLOSE_RULES")]
    ELSE IF e.APP_SLACK_TOKEN # "" /\ e.APP_SLACK_CHANNEL = ""
    THEN [cfg |-> NoConfig,
          err |-> [kind |-> "APP_SLACK_TOKEN requires APP_SLACK_CHANNEL"]]
    ELSE IF e.APP_SLACK_TOKEN = "" /\ e.APP_SLACK_CHANNEL # ""
    THEN [cfg |-> NoConfig,
          err |-> [kind |-> "APP_SLACK_CHANNEL requires APP_SLACK_TOKEN"]]
    ELSE [cfg |->
            [AutoCloseRules |->
                 IF e.APP_AUTO_CLOSE_RULES # <<>>
                 THEN parseAutoCloseRules(e.APP_AUTO_CLOSE_RULES).rules
                 ELSE <<>>,
             AutoCloseRulesS3Bucket |-> e.APP_AUTO_CLOSE_RULES_S3_BUCKET,
             SlackToken |-> e.APP_SLACK_TOKEN,
             SlackChannel |-> e.APP_SLACK_CHANNEL,
             SlackEnabled |-> e.APP_SLACK_TOKEN # "" /\ e.APP_SLACK_CHANNEL # ""],
          err |-> ErrNil]

\* app.New: the rules of the FilterEngine, whether a Notifier is set, and
\* the error.  s3 is the bucket the S3 client reads.
New_S3First(cfg, s3) ==
    IF cfg.AutoCloseRulesS3Bucket # ""
    THEN IF LoadRules(s3).err # ErrNil
         THEN [ok |-> FALSE, Rules |-> <<>>, Notifier |-> FALSE,
               err |-> Wrap(LoadRules(s3).err, "failed to load rules from s3"),
               loaded |-> <<LoadRules(s3)>>]
         ELSE [ok |-> TRUE,
               Rules |-> LoadRules(s3).rules \o cfg.AutoCloseRules,
               Notifier |-> cfg.SlackEnabled, err |-> ErrNil,
               loaded |-> <<LoadRules(s3)>>]
    ELSE [ok |-> TRUE, Rules |-> cfg.AutoCloseRules,
          Notifier |-> cfg.SlackEnabled, err |-> ErrNil, loaded |-> <<>>]

New_FallBackToInline(cfg, s3) ==
    IF cfg.AutoCloseRulesS3Bucket # ""
    THEN LET s3Rules == LoadRules(s3) IN
         IF s3Rules.err # ErrNil /\ Len(cfg.AutoCloseRules) = 0
         THEN [ok |-> FALSE, Rules |-> <<>>, Notifier |-> FALSE,
               err |-> Wrap(s3Rules.err, "failed to load rules from s3"),
               loaded |-> <<s3Rules>>]
         ELSE [ok |-> TRUE,
               Rules |-> IF Len(cfg.AutoCloseRules) > 0
                         THEN cfg.AutoCloseRules \o s3Rules.rules
                         ELSE s3Rules.rules,
               Notifier |-> cfg.SlackEnabled, err |-> ErrNil,
               loaded |-> <<s3Rules>>]
    ELSE [ok |-> TRUE, Rules |-> cfg.AutoCloseRules,
          Notifier |-> cfg.SlackEnabled, err |-> ErrNil, loaded |-> <<>>]

\* app.New; loaded is the result of each call of the loader it made.
New(cfg, s3) ==
    IF cfg.AutoCloseRulesS3Bucket # ""
    THEN LET s3Rules == LoadRules(s3) IN
         IF s3Rules.err # ErrNil
         THEN [ok |-> FALSE, Rules |-> <<>>, Notifier |-> FALSE,
               err |-> Wrap(s3Rules.err, "failed to load rules from s3"),
               loaded |-> <<s3Rules>>]
         ELSE [ok |-> TRUE,
               Rules |-> IF Len(cfg.AutoCloseRules) > 0
                         THEN cfg.AutoCloseRules \o s3Rules.rules
                         ELSE s3Rules.rules,
               Notifier |-> cfg.SlackEnabled, err |-> ErrNil,
               loaded |-> <<s3Rules>>]
    ELSE [ok |-> TRUE, Rules |-> cfg.AutoCloseRules,
          Notifier |-> cfg.SlackEnabled, err |-> ErrNil, loaded |-> <<>>]

\* The invocation that has not started yet.
IdleProc ==
    [pc |-> "Idle", evt |-> <<>>, finding |-> NoFinding, matchedIdx |-> 0,
     closeCalls |-> <<>>, notifyCalls |-> <<>>, result |-> ErrPending]

OnceIdle == [state |-> "idle", by |-> 0, cfg |-> NoConfig]

\* once.Do has returned for a caller when the function it guards has run to
\* its end, whoever ran it.
OnceReturned_NoWait == TRUE

OnceReturned == once.state = "done"

(* Inputs of the handler *)

InlineCatchAll ==
    Val("object", [name |-> "env-catch-all", enabled |-> TRUE,
                   action |-> [status_id |-> 4, comment |-> "suppressed"]])

\* The same document as the rule "s3-high" stored in the bucket.
InlineHigh == GoodRule

InlineQuiet ==
    Val("object", [name |-> "env-quiet", enabled |-> TRUE,
                   filters |-> [severity |-> <<"Medium">>],
                   action |-> [status_id |-> 6, comment |-> "archived"],
                   skip_notification |-> TRUE])

RulesJSONs ==
    {<<>>, <<LB, InlineCatchAll, RB>>,
     <<LB, InlineHigh, COMMA, InlineQuiet, RB>>,
     <<Str(<<LB, InlineQuiet, COMMA, InlineCatchAll, RB>>)>>,
     <<Val("malformed", <<>>)>>}

JsonObject(body) ==
    [ext |-> ".json", GetErr |-> FALSE, ReadErr |-> FALSE, Body |-> body]

BucketOf(stored) ==
    [objects |-> ObjectsOf(stored),
     pages |-> <<Page(Entries(ObjectsOf(stored), 1, Len(stored)))>>]

RuleBuckets ==
    {BucketOf(<<JsonObject(<<GoodRule>>)>>),
     BucketOf(<<JsonObject(<<LB, OtherRule, COMMA, PartialRule, RB>>),
                JsonObject(<<GoodRule>>)>>),
     BucketOf(<<JsonObject(<<GoodRule>>),
                JsonObject(<<Val("malformed", <<>>)>>)>>)}

\* Buckets the loader fails on: the listing fails, the bucket lists no key,
\* GetObject fails, the only document is an empty array.
FailingBuckets ==
    {[objects |-> ObjectsOf(<<JsonObject(<<GoodRule>>)>>), pages |-> <<FailedPage>>],
     BucketOf(<<>>),
     BucketOf(<<[ext |-> ".json", GetErr |-> TRUE, ReadErr |-> FALSE,
                 Body |-> <<>>]>>),
     BucketOf(<<JsonObject(<<LB, RB>>)>>)}

MkEnv(rulesJSON, bucketName, s3, token, channel) ==
    [APP_AUTO_CLOSE_RULES |-> rulesJSON,
     APP_AUTO_CLOSE_RULES_S3_BUCKET |-> bucketName,
     s3 |-> s3,
     APP_SLACK_TOKEN |-> token,
     APP_SLACK_CHANNEL |-> channel]

Envs ==
    {MkEnv(rj, "", BucketOf(<<>>), "xoxb", "C01") : rj \in RulesJSONs}
    \cup {MkEnv(rj, "rules-bucket", b, "xoxb", "C01") :
            rj \in RulesJSONs, b \in RuleBuckets}
    \cup {MkEnv(<<LB, InlineCatchAll, RB>>, "", BucketOf(<<>>), sl[1], sl[2]) :
            sl \in {<<"", "">>, <<"xoxb", "">>, <<"", "C01">>}}
    \cup {MkEnv(<<>>, "rules-bucket", b, "", "") : b \in RuleBuckets}
    \cup {MkEnv(rj, "rules-bucket", b, "xoxb", "C01") :
            rj \in {<<>>, <<LB, InlineCatchAll, RB>>}, b \in FailingBuckets}

HandlerFinding(uid, status, severity) ==
    [json |-> "object",
     obj |-> [findings |->
        <<RawFindingDoc(uid, status, severity, <<ScenarioType>>, "GuardDuty",
                        "111111111111", "us-east-1",
                        <<RawResource("AWS::EC2::Instance", <<RunnerTag>>)>>)>>]]

HandlerEvents ==
    {[EventID |-> "e-1", DetailType |-> SupportedDetailType,
      Detail |-> HandlerFinding("f-1", "New", "High")],
     [EventID |-> "e-2", DetailType |-> SupportedDetailType,
      Detail |-> HandlerFinding("f-2", "New", "Medium")],
     [EventID |-> "e-3", DetailType |-> "Something Else",
      Detail |-> HandlerFinding("f-3", "New", "High")]}

InitHandler ==
    /\ env \in Envs
    /\ once = OnceIdle
    /\ app = [set |-> FALSE, initErr |-> ErrNil, inits |-> 0]
    /\ procs = [i \in Procs |-> IdleProc]
    /\ rules = <<>>
    /\ notifier = FALSE
    /\ pc = "Handler"
    /\ evt = <<>>
    /\ finding = NoFinding
    /\ matchedIdx = 0
    /\ closeCalls = <<>>
    /\ notifyCalls = <<>>
    /\ result = ErrPending
    /\ steps = <<>>
    /\ filters = NoFilters
    /\ verdict = "none"
    /\ ctxDone = "no"
    /\ LoaderIdle

pipelineVars ==
    <<evt, finding, pc, matchedIdx, closeCalls, notifyCalls, result, steps,
      filters, verdict, ctxDone, loaderVars>>

Invoke_WithoutOnce(i) ==
    /\ procs[i].pc = "Idle"
    /\ \E e \in HandlerEvents :
          procs' = [procs EXCEPT ![i].pc = "InOnce", ![i].evt = e]
    /\ once' = IF once.state \in {"idle", "done"}
               THEN [state |-> "config", by |-> i, cfg |-> NoConfig]
               ELSE once
    /\ UNCHANGED <<rules, notifier, env, app, pipelineVars>>

\* LambdaHandler is called with an event and reaches once.Do; the first
\* caller runs the function once.Do guards.
Invoke(i) ==
    /\ procs[i].pc = "Idle"
    /\ \E e \in HandlerEvents :
          procs' = [procs EXCEPT ![i].pc = "InOnce", ![i].evt = e]
    /\ once' = IF once.state = "idle"
               THEN [state |-> "config", by |-> i, cfg |-> NoConfig]
               ELSE once
    /\ UNCHANGED <<rules, notifier, env, app, pipelineVars>>

\* The guarded function, up to the call of app.New.
NewConfigStep(i) ==
    /\ once.state = "config" /\ once.by = i
    /\ LET c == NewConfig(env) IN
       IF c.err # ErrNil
       THEN /\ app' = [set |-> FALSE, initErr |-> c.err, inits |-> app.inits + 1]
            /\ once' = [once EXCEPT !.state = "done"]
       ELSE /\ once' = [once EXCEPT !.state = "new", !.cfg = c.cfg]
            /\ UNCHANGED app
    /\ UNCHANGED <<rules, notifier, env, procs, pipelineVars>>

\* a, initErr = app.New(ctx, cfg, logger), and the return of the function.
NewStep(i) ==
    /\ once.state = "new" /\ once.by = i
    /\ LET n == New(once.cfg, env.s3) IN
       /\ app' = [set |-> n.ok, initErr |-> n.err, inits |-> app.inits + 1]
       /\ rules' = n.Rules
       /\ notifier' = n.Notifier
       /\ loaded' = n.loaded
    /\ once' = [once EXCEPT !.state = "done"]
    /\ UNCHANGED <<env, procs, evt, finding, pc, matchedIdx, closeCalls,
                   notifyCalls, result, steps, filters, verdict, ctxDone,
                   bucket, payload, parsed>>

\* once.Do returns to the caller, which checks initErr.
OnceReturn(i) ==
    /\ procs[i].pc = "InOnce"
    /\ OnceReturned
    /\ IF app.initErr # ErrNil
       THEN procs' = [procs EXCEPT ![i].pc = "InitFailed",
                                   ![i].result = app.initErr]
       ELSE procs' = [procs EXCEPT ![i].pc = "Received"]
    /\ UNCHANGED <<rules, notifier, env, once, app, pipelineVars>>

\* a.Process(ctx, input) of invocation i, step by step.
HParseEvent(i) ==
    /\ procs[i].pc = "Received"
    /\ LET p == ParseEvent(procs[i].evt) IN
       procs' = [procs EXCEPT
                    ![i].finding = p.finding,
                    ![i].pc = IF p.err = ErrNil THEN "Parsed" ELSE "Failed",
                    ![i].result = IF p.err = ErrNil THEN @ ELSE p.err]
    /\ UNCHANGED <<rules, notifier, env, once, app, pipelineVars>>

HFindMatch_ConsumeRule(i) ==
    /\ procs[i].pc = "Parsed"
    /\ LET idx == FindMatchingRule(rules, procs[i].finding) IN
       /\ procs' = [procs EXCEPT
                       ![i].matchedIdx = idx,
                       ![i].pc = IF idx > 0 THEN "Matched" ELSE "Unmatched"]
       /\ rules' = IF idx > 0 THEN [rules EXCEPT ![idx].Enabled = FALSE]
                   ELSE rules
    /\ UNCHANGED <<notifier, env, once, app, pipelineVars>>

HFindMatch(i) ==
    /\ procs[i].pc = "Parsed"
    /\ LET idx == FindMatchingRule(rules, procs[i].finding) IN
       procs' = [procs EXCEPT
                    ![i].matchedIdx = idx,
                    ![i].pc = IF idx > 0 THEN "Matched" ELSE "Unmatched"]
    /\ UNCHANGED <<rules, notifier, env, once, app, pipelineVars>>

HClose(i) ==
    /\ procs[i].pc = "Matched"
    /\ \E resp \in CloseResponses :
          LET p    == procs[i]
              rule == rules[p.matchedIdx]
              err  == CloseError(p.finding, resp)
          IN  procs' = [procs EXCEPT
                  ![i].closeCalls =
                      Append(@, [input |-> CloseInput(p.finding,
                                                      rule.Action.StatusID,
                                                      rule.Action.Comment),
                                 resp |-> resp]),
                  ![i].pc = IF err = ErrNil THEN "Closed" ELSE "Failed",
                  ![i].result =
                      IF err = ErrNil THEN @
                      ELSE [kind |-> "ActionFailure",
                            msg |-> "failed to auto-close finding",
                            cause |-> err]]
    /\ UNCHANGED <<rules, notifier, env, once, app, pipelineVars>>

HWillNotify(i) ==
    \/ procs[i].pc = "Closed" /\ NotifyAfterClose(rules[procs[i].matchedIdx])
    \/ procs[i].pc = "Unmatched" /\ NotifyUnmatched(procs[i].finding)

HNotify(i) ==
    /\ HWillNotify(i)
    /\ \E err \in NotifyResults :
          procs' = [procs EXCEPT
              ![i].notifyCalls =
                  Append(@, [finding |-> procs[i].finding, err |-> err]),
              ![i].pc = IF err = ErrNil THEN "Notified" ELSE "Failed",
              ![i].result = IF err = ErrNil THEN @ ELSE err]
    /\ UNCHANGED <<rules, notifier, env, once, app, pipelineVars>>

HReturn(i) ==
    /\ \/ procs[i].pc = "Notified"
       \/ procs[i].pc \in {"Closed", "Unmatched"} /\ ~HWillNotify(i)
    /\ procs' = [procs EXCEPT ![i].pc = "Done", ![i].result = ErrNil]
    /\ UNCHANGED <<rules, notifier, env, once, app, pipelineVars>>

NextHandler ==
    \/ \E i \in Procs : Invoke(i)
    \/ \E i \in Procs : NewConfigStep(i)
    \/ \E i \in Procs : NewStep(i)
    \/ \E i \in Procs : OnceReturn(i)
    \/ \E i \in Procs : HParseEvent(i)
    \/ \E i \in Procs : HFindMatch(i)
    \/ \E i \in Procs : HClose(i)
    \/ \E i \in Procs : HNotify(i)
    \/ \E i \in Procs : HReturn(i)

SpecHandler == InitHandler /\ [][NextHandler]_vars

(* Properties of the handler *)

\* The rules of each source, as the source holds them.
InlineRules ==
    IF env.APP_AUTO_CLOSE_RULES = <<>> THEN <<>>
    ELSE parseAutoCloseRules(env.APP_AUTO_CLOSE_RULES).rules

ExternalRules ==
    IF env.APP_AUTO_CLOSE_RULES_S3_BUCKET = "" THEN <<>>
    ELSE LoadRules(env.s3).rules

CompleteRuleSet == InlineRules \o ExternalRules

InProcess(i) ==
    procs[i].pc \in {"Received", "Parsed", "Matched", "Unmatched", "Closed",
                     "Notified", "Done", "Failed"}

Evaluating(i) ==
    procs[i].pc \in {"Parsed", "Matched", "Unmatched", "Closed", "Notified"}

PastMatch(i) ==
    \/ procs[i].pc \in {"Matched", "Unmatched", "Closed", "Notified", "Done"}
    \/ /\ procs[i].pc = "Failed"
       /\ procs[i].closeCalls # <<>> \/ procs[i].notifyCalls # <<>>

\* What an evaluation of finding f against rule sequence rs yields when it
\* runs alone.
AloneMatch(rs, f) == FindMatchingRule(rs, f)

\* C15: evaluations that share one RuleSet leave it, and the finding each
\* one parsed, unchanged at every step, and each one matches the rule it
\* would match running alone against the RuleSet that was installed.
C15_EvaluationReadOnly ==
    /\ [](LET installed == CompleteRuleSet IN
          \A i \in Procs :
            PastMatch(i) =>
                /\ procs[i].matchedIdx = AloneMatch(installed, procs[i].finding)
                /\ procs[i].finding = ParseEvent(procs[i].evt).finding
                /\ \A k \in 1..Len(procs[i].closeCalls) :
                      procs[i].closeCalls[k].input.StatusId =
                          installed[procs[i].matchedIdx].Action.StatusID)
    /\ [][/\ app.set => rules' = rules
          /\ \A i \in Procs :
                Evaluating(i) => procs'[i].finding = procs[i].finding]_vars

\* Two invocations are past the match at once, on the same finding and the
\* same rule, and one of them has already closed it.
C15_Witness ==
    /\ \A i \in Procs : Evaluating(i)
    /\ \E i, j \in Procs :
          /\ i # j
          /\ procs[i].finding = procs[j].finding
          /\ procs[i].matchedIdx > 0
          /\ procs[i].matchedIdx = procs[j].matchedIdx
          /\ procs[i].pc = "Closed"
          /\ procs[j].pc = "Matched"

\* C16: every invocation inside Process sees the complete RuleSet, all
\* inline rules followed by all loaded rules, and the RuleSet is installed
\* in one step, from nothing to complete, and never changed after that.
C16_NeverPartial ==
    /\ [](LET complete == CompleteRuleSet IN
          \A i \in Procs :
            InProcess(i) =>
                /\ app.set
                /\ once.state = "done"
                /\ rules = complete
                /\ notifier = (env.APP_SLACK_TOKEN # "" /\ env.APP_SLACK_CHANNEL # ""))
    /\ [][rules' # rules =>
            /\ ~app.set /\ app'.set
            /\ rules = <<>>
            /\ rules' = CompleteRuleSet
            /\ \A i \in Procs : ~InProcess(i) /\ ~InProcess(i)']_vars

\* One invocation is inside Process and another is still in once.Do, on a
\* RuleSet built from both sources.
C16_Witness ==
    /\ InlineRules # <<>>
    /\ ExternalRules # <<>>
    /\ \E i, j \in Procs :
          /\ procs[i].pc = "Parsed"
          /\ procs[j].pc = "InOnce"
          /\ once.by = j

\* C17: the RuleSet is the inline rules followed by the loaded rules, each
\* source in its own order, nothing dropped, and a close carries the action
\* of the first matching inline rule when there is one.
C17_InlineBeforeExternal ==
    LET inline == InlineRules
        external == ExternalRules
    IN  app.set =>
            /\ Len(rules) = Len(inline) + Len(external)
            /\ \A k \in 1..Len(inline) : rules[k] = inline[k]
            /\ \A k \in 1..Len(external) : rules[Len(inline) + k] = external[k]
            /\ \A i \in Procs :
                  (/\ procs[i].closeCalls # <<>>
                   /\ FindMatchingRule(inline, procs[i].finding) > 0)
                     => LET r == inline[FindMatchingRule(inline, procs[i].finding)]
                        IN  /\ procs[i].closeCalls[1].input.StatusId
                                  = r.Action.StatusID
                            /\ procs[i].closeCalls[1].input.Comment
                                  = r.Action.Comment

\* An inline rule and a loaded rule both match the finding, the loaded rule
\* is equal to another inline rule, and the close carried the action of the
\* first matching inline rule.
C17_Witness ==
    /\ app.set
    /\ \E k \in 1..Len(InlineRules) : \E m \in 1..Len(ExternalRules) :
          InlineRules[k] = ExternalRules[m]
    /\ \E i \in Procs :
          /\ procs[i].closeCalls # <<>>
          /\ FindMatchingRule(InlineRules, procs[i].finding) > 0
          /\ FindMatchingRule(ExternalRules, procs[i].finding) > 0
          /\ InlineRules[FindMatchingRule(InlineRules, procs[i].finding)].Action
               # ExternalRules[FindMatchingRule(ExternalRules,
                                                procs[i].finding)].Action

----------------------------------------------------------------------------
(* Further properties of the loader *)

\* The number of rules a well-formed document holds: its values.
RuleCount(body) ==
    Cardinality({i \in 1..Len(body) : body[i].t = "value"})

RECURSIVE TotalRulesFrom(_)
TotalRulesFrom(keys) ==
    IF keys = <<>> THEN 0
    ELSE (IF Head(keys).ext = ".json"
          THEN RuleCount(ObjectAt(bucket, Head(keys)).Body) ELSE 0)
         + TotalRulesFrom(Tail(keys))

\* Nothing fails while the bucket is scanned.
ScanSucceeds ==
    /\ ~ListingFails
    /\ \A i \in 1..Len(bucket.objects) : ~BadObject(bucket.objects[i])

\* C21: a scan that fails nowhere and yields zero rules in total ends in an
\* error of LoadRules' own, "no objects found" when no key is listed and
\* "no rules loaded" otherwise, and LoadRules never succeeds with no rules.
C21_NeverEmptySuccess ==
    pc = "Loaded" =>
        /\ (ScanSucceeds /\ TotalRulesFrom(ListedKeys) = 0) =>
              /\ loaded[1].rules = <<>>
              /\ loaded[1].err = IF ListedKeys = <<>>
                                 THEN [kind |-> "no objects found"]
                                 ELSE [kind |-> "no rules loaded"]
        /\ loaded[1].err = ErrNil => Len(loaded[1].rules) > 0

\* Only an empty array and a whitespace-only object under .json keys.
C21_Witness ==
    /\ pc = "Loaded"
    /\ ScanSucceeds
    /\ Len(ListedKeys) = 2
    /\ \A i \in 1..2 : ListedKeys[i].ext = ".json"
    /\ SkipSpace(ObjectAt(bucket, ListedKeys[1]).Body) = <<LB, RB>>
    /\ ObjectAt(bucket, ListedKeys[2]).Body = <<WS>>
    /\ loaded[1].err = [kind |-> "no rules loaded"]

\* The rules a well-formed document holds, in the order it holds them.
DocumentRules(body) ==
    LET vals == SelectSeq(body, LAMBDA tok : tok.t = "value") IN
    [i \in 1..Len(vals) |-> UnmarshalValue(vals[i]).rule]

RECURSIVE JsonRulesFrom(_)
JsonRulesFrom(keys) ==
    IF keys = <<>> THEN <<>>
    ELSE (IF Head(keys).ext = ".json"
          THEN DocumentRules(ObjectAt(bucket, Head(keys)).Body) ELSE <<>>)
         \o JsonRulesFrom(Tail(keys))

\* C22: GetObject is called for keys ending in .json only, in listing
\* order and once each; a key with another suffix is never fetched and
\* never fails the load, whatever is stored under it; a successful load
\* returns the rules of the .json objects concatenated in listing order.
C22_OnlyJsonKeys ==
    pc = "Loaded" =>
        /\ \A i \in 1..Len(loaded[1].fetched) : loaded[1].fetched[i].ext = ".json"
        /\ ScanSucceeds =>
              /\ loaded[1].fetched =
                    SelectSeq(ListedKeys, LAMBDA k : k.ext = ".json")
              /\ TotalRulesFrom(ListedKeys) > 0 =>
                    /\ loaded[1].err = ErrNil
                    /\ loaded[1].rules = JsonRulesFrom(ListedKeys)

\* A key ending in .JSON whose fetch would fail is listed before a .json
\* object that holds rules: the load succeeds with that object's rules.
C22_Witness ==
    /\ pc = "Loaded"
    /\ Len(ListedKeys) = 2
    /\ ListedKeys[1].ext = ".JSON"
    /\ ObjectAt(bucket, ListedKeys[1]).GetErr
    /\ ListedKeys[2].ext = ".json"
    /\ loaded[1].err = ErrNil
    /\ Len(loaded[1].rules) = 2
    /\ loaded[1].fetched = <<ListedKeys[2]>>

----------------------------------------------------------------------------
(* The document specification: parseRules applied to one document *)

MaxDocLen == 5

\* The tokens documents are made of.
DocTokens ==
    {WS, LB, RB, COMMA, GoodRule, PartialRule, Val("null", <<>>),
     Val("mistyped", <<>>), Val("malformed", <<>>)}

InitParse ==
    /\ \E n \in 0..MaxDocLen : payload \in [1..n -> DocTokens]
    /\ parsed = <<>>
    /\ pc = "ParseInput"
    /\ bucket = <<>>
    /\ loaded = <<>>
    /\ rules = <<>>
    /\ notifier = FALSE
    /\ evt = <<>>
    /\ finding = NoFinding
    /\ matchedIdx = 0
    /\ closeCalls = <<>>
    /\ notifyCalls = <<>>
    /\ result = ErrPending
    /\ steps = <<>>
    /\ filters = NoFilters
    /\ verdict = "none"
    /\ ctxDone = "no"
    /\ HandlerIdle

ApplyParseRules ==
    /\ pc = "ParseInput"
    /\ parsed' = <<parseRules(payload)>>
    /\ pc' = "RulesParsed"
    /\ UNCHANGED <<rules, notifier, evt, finding, matchedIdx, closeCalls,
                   notifyCalls, result, steps, filters, verdict, ctxDone,
                   bucket, loaded, payload, handlerVars>>

NextParse == ApplyParseRules

SpecParse == InitParse /\ [][NextParse]_vars

\* The tokens of the document that are not white space.
Significant == SelectSeq(payload, LAMBDA tok : tok.t # "ws")

\* C23: the first token that is not white space selects the shape: no such
\* token, no rules and no error; "[", the rules of the array in its order,
\* or the array error; anything else, exactly one rule, or the single-rule
\* error.  A failure in the selected shape is never retried as the other.
C23_ShapeByFirstByte ==
    pc = "RulesParsed" =>
        IF Significant = <<>>
        THEN parsed[1] = [rules |-> <<>>, err |-> ErrNil]
        ELSE IF Significant[1].t = "["
        THEN IF WellFormed(payload)
             THEN /\ parsed[1].err = ErrNil
                  /\ parsed[1].rules = DocumentRules(payload)
             ELSE /\ parsed[1].rules = <<>>
                  /\ parsed[1].err # ErrNil
                  /\ parsed[1].err.msg = "failed to parse rules array"
        ELSE IF Len(Significant) = 1 /\ IsRuleValue(Significant[1])
        THEN /\ parsed[1].err = ErrNil
             /\ Len(parsed[1].rules) = 1
             /\ parsed[1].rules = DocumentRules(payload)
        ELSE /\ parsed[1].rules = <<>>
             /\ parsed[1].err # ErrNil
             /\ parsed[1].err.msg = "failed to parse single rule"

\* An array of two different rules.
C23_Witness ==
    /\ pc = "RulesParsed"
    /\ Significant # <<>>
    /\ Significant[1].t = "["
    /\ parsed[1].err = ErrNil
    /\ Len(parsed[1].rules) = 2
    /\ parsed[1].rules[1] # parsed[1].rules[2]

----------------------------------------------------------------------------
(* The inline-rules specification: parseAutoCloseRules applied to one value *)
(* of APP_AUTO_CLOSE_RULES                                                 *)

MaxInlineLen == 4

\* What a JSON string can hold: arrays of rules, null, one rule object,
\* text that is not JSON, and a string that holds an array in its turn.
EncodedDocs ==
    {<<LB, RB>>, <<LB, GoodRule, COMMA, PartialRule, RB>>, <<Val("null", <<>>)>>,
     <<GoodRule>>, <<Val("malformed", <<>>)>>,
     <<Str(<<LB, GoodRule, RB>>)>>}

InlineTokens ==
    {WS, LB, RB, COMMA, GoodRule, PartialRule, Val("null", <<>>),
     Val("malformed", <<>>)}
    \cup {Str(d) : d \in EncodedDocs}

InitInline ==
    /\ \E n \in 0..MaxInlineLen : payload \in [1..n -> InlineTokens]
    /\ parsed = <<>>
    /\ pc = "InlineInput"
    /\ bucket = <<>>
    /\ loaded = <<>>
    /\ rules = <<>>
    /\ notifier = FALSE
    /\ evt = <<>>
    /\ finding = NoFinding
    /\ matchedIdx = 0
    /\ closeCalls = <<>>
    /\ notifyCalls = <<>>
    /\ result = ErrPending
    /\ steps = <<>>
    /\ filters = NoFilters
    /\ verdict = "none"
    /\ ctxDone = "no"
    /\ HandlerIdle

ApplyParseAutoCloseRules ==
    /\ pc = "InlineInput"
    /\ parsed' = <<parseAutoCloseRules(payload)>>
    /\ pc' = "InlineParsed"
    /\ UNCHANGED <<rules, notifier, evt, finding, matchedIdx, closeCalls,
                   notifyCalls, result, steps, filters, verdict, ctxDone,
                   bucket, loaded, payload, handlerVars>>

NextInline == ApplyParseAutoCloseRules

SpecInline == InitInline /\ [][NextInline]_vars

NoSpace(d) == SelectSeq(d, LAMBDA tok : tok.t # "ws")

\* A JSON array of rules: brackets around rule values separated by commas.
IsRuleArray(d) ==
    /\ Len(NoSpace(d)) >= 2
    /\ NoSpace(d)[1].t = "["
    /\ WellFormed(d)

IsNull(d) == NoSpace(d) = <<Val("null", <<>>)>>

\* A JSON string, and what it holds.
IsString(d) ==
    /\ Len(NoSpace(d)) = 1
    /\ NoSpace(d)[1].t = "value"
    /\ NoSpace(d)[1].json = "string"

Content(d) == NoSpace(d)[1].obj.content

\* C24 as stated: the value is accepted exactly when it is a JSON array of
\* rules, or a JSON string whose content is a JSON array of rules, and the
\* rules are those of that array; everything else is an error.
C24_TwoAttempts ==
    pc = "InlineParsed" =>
        IF IsRuleArray(payload)
        THEN parsed[1] = [rules |-> DocumentRules(payload), err |-> ErrNil]
        ELSE IF IsString(payload) /\ IsRuleArray(Content(payload))
        THEN parsed[1] = [rules |-> DocumentRules(Content(payload)),
                          err |-> ErrNil]
        ELSE parsed[1].err # ErrNil /\ parsed[1].rules = <<>>

\* C24 amended: as stated, except that the value null, bare or as the
\* content of the string, is accepted as no rules; a string whose content
\* is a string is rejected whatever that holds.
C24_TwoAttemptsOrNull ==
    pc = "InlineParsed" =>
        IF IsRuleArray(payload)
        THEN parsed[1] = [rules |-> DocumentRules(payload), err |-> ErrNil]
        ELSE IF IsString(payload) /\ IsRuleArray(Content(payload))
        THEN parsed[1] = [rules |-> DocumentRules(Content(payload)),
                          err |-> ErrNil]
        ELSE IF IsNull(payload) \/ (IsString(payload) /\ IsNull(Content(payload)))
        THEN parsed[1] = [rules |-> <<>>, err |-> ErrNil]
        ELSE parsed[1].err # ErrNil /\ parsed[1].rules = <<>>

\* An array of rules encoded as a string twice is rejected.
C24_Witness ==
    /\ pc = "InlineParsed"
    /\ IsString(payload)
    /\ IsString(Content(payload))
    /\ IsRuleArray(Content(Content(payload)))
    /\ parsed[1].err # ErrNil
    /\ parsed[1].err.msg = "invalid JSON in encoded string"

----------------------------------------------------------------------------
(* The pair specification: invocations of Process on events that agree on  *)
(* the detail type and on findings[0], against one App                     *)

PairFinding(uid, status, severity) ==
    RawFindingDoc(uid, status, severity, <<ScenarioType>>, "GuardDuty",
                  "111111111111", "us-east-1",
                  <<RawResource("AWS::EC2::Instance", <<RunnerTag>>)>>)

\* findings[0]: a finding rules match, one that is only alertable, and a
\* value that does not decode as a finding.
FirstFindings ==
    {PairFinding("f-1", "New", "High"), PairFinding("f-2", "New", "Medium"),
     [json |-> "malformed"]}

\* The findings at index 1 and above.
OtherFindings ==
    {<<>>, <<PairFinding("f-9", "New", "High")>>,
     <<[json |-> "malformed"], PairFinding("f-1", "Resolved", "Low")>>}

PairRules ==
    {<<>>,
     <<MkRule("high-severity", TRUE, [NoFilters EXCEPT !.Severity = <<"High">>],
              3, "in progress", FALSE)>>,
     <<MkRule("catch-all-quiet", TRUE, NoFilters, 6, "archived", TRUE)>>}

PairEvent(i, dt, first, others) ==
    [EventID |-> IF i = 1 THEN "e-1" ELSE "e-2",
     DetailType |-> dt,
     Detail |-> [json |-> "object", obj |-> [findings |-> <<first>> \o others]]]

InitPair ==
    /\ rules \in PairRules
    /\ notifier \in BOOLEAN
    /\ \E dt \in {SupportedDetailType, "Something Else"} :
       \E first \in FirstFindings :
       \E others \in [Procs -> OtherFindings] :
          procs = [i \in Procs |->
                      [IdleProc EXCEPT !.pc = "Received",
                                       !.evt = PairEvent(i, dt, first, others[i])]]
    /\ env = <<>>
    /\ once = <<>>
    /\ app = <<>>
    /\ pc = "Pair"
    /\ evt = <<>>
    /\ finding = NoFinding
    /\ matchedIdx = 0
    /\ closeCalls = <<>>
    /\ notifyCalls = <<>>
    /\ result = ErrPending
    /\ steps = <<>>
    /\ filters = NoFilters
    /\ verdict = "none"
    /\ ctxDone = "no"
    /\ LoaderIdle

NextPair ==
    \/ \E i \in Procs : HParseEvent(i)
    \/ \E i \in Procs : HFindMatch(i)
    \/ \E i \in Procs : HClose(i)
    \/ \E i \in Procs : HNotify(i)
    \/ \E i \in Procs : HReturn(i)

SpecPair == InitPair /\ [][NextPair]_vars

Returned(i) == procs[i].pc \in {"Done", "Failed"}

FirstOf(e) == e.Detail.obj.findings[1]

\* The answers the collaborators gave an invocation, in order.
Answers(i) ==
    <<[k \in 1..Len(procs[i].closeCalls) |-> procs[i].closeCalls[k].resp],
      [k \in 1..Len(procs[i].notifyCalls) |-> procs[i].notifyCalls[k].err]>>

\* C25: an invocation parses, closes and notifies findings[0] and nothing
\* else, at most once each, and two invocations on events that agree on the
\* detail type and on findings[0], given the same answers by the
\* collaborators, make the same calls and return the same value, whatever
\* follows findings[0] in either event.
C25_OnlyFirstFinding ==
    /\ \A i \in Procs :
          /\ Len(procs[i].closeCalls) <= 1
          /\ Len(procs[i].notifyCalls) <= 1
          /\ procs[i].finding # NoFinding =>
                procs[i].finding = NewSecurityHubFinding(FirstOf(procs[i].evt)).finding
          /\ \A k \in 1..Len(procs[i].closeCalls) :
                procs[i].closeCalls[k].input.MetadataUids
                    = <<procs[i].finding.Metadata.UID>>
          /\ \A k \in 1..Len(procs[i].notifyCalls) :
                procs[i].notifyCalls[k].finding = procs[i].finding
    /\ \A i, j \in Procs :
          (/\ Returned(i) /\ Returned(j)
           /\ procs[i].evt.DetailType = procs[j].evt.DetailType
           /\ FirstOf(procs[i].evt) = FirstOf(procs[j].evt)
           /\ Answers(i) = Answers(j))
             => /\ procs[i].closeCalls = procs[j].closeCalls
                /\ procs[i].notifyCalls = procs[j].notifyCalls
                /\ procs[i].result = procs[j].result

\* Two invocations closed and notified the same finding; one event held
\* only that finding, the other two more.
C25_Witness ==
    \E i, j \in Procs :
       /\ Returned(i) /\ Returned(j)
       /\ Len(procs[i].evt.Detail.obj.findings) = 1
       /\ Len(procs[j].evt.Detail.obj.findings) = 3
       /\ procs[i].closeCalls # <<>>
       /\ procs[i].notifyCalls # <<>>
       /\ Answers(i) = Answers(j)
       /\ procs[i].result = procs[j].result

----------------------------------------------------------------------------
(* The round-trip specification: json.Marshal of one AutoCloseRule and     *)
(* json.Unmarshal of the result                                            *)

\* The keys of RuleFilters carry omitempty: a category of length 0 is left
\* out of the object.
MarshalRuleFilters(f) ==
    LET lists == [finding_types |-> f.FindingTypes,
                  severity |-> f.Severity,
                  product_name |-> f.ProductName,
                  resource_types |-> f.ResourceTypes,
                  resource_tags |->
                      [i \in 1..Len(f.ResourceTags) |->
                          [name |-> f.ResourceTags[i].Name,
                           value |-> f.ResourceTags[i].Value]],
                  accounts |-> f.Accounts,
                  regions |-> f.Regions]
        present == {k \in DOMAIN lists : Len(lists[k]) > 0}
    IN  [k \in present |-> lists[k]]

MarshalRuleAction(a) == [status_id |-> a.StatusID, comment |-> a.Comment]

MarshalRule_MismatchedTag(r) ==
    <<Val("object",
          [name |-> r.Name,
           enabled |-> r.Enabled,
           filters |-> MarshalRuleFilters(r.Filters),
           action |-> MarshalRuleAction(r.Action),
           skipNotification |-> r.SkipNotification])>>

\* The keys of AutoCloseRule carry no omitempty: false booleans, the empty
\* name and the filters object are written like any other value.
MarshalRule(r) ==
    <<Val("object",
          [name |-> r.Name,
           enabled |-> r.Enabled,
           filters |-> MarshalRuleFilters(r.Filters),
           action |-> MarshalRuleAction(r.Action),
           skip_notification |-> r.SkipNotification])>>

TagFilterVals ==
    {[Name |-> RunnerTag.name, Value |-> RunnerTag.value],
     [Name |-> "env", Value |-> ""]}

InitRoundTrip ==
    /\ \E name \in {"", "runner-binaries"} :
       \E enabled, skip \in BOOLEAN :
       \E status \in {0, 3} :
       \E comment \in {"", "expected on runners"} :
       \E nt, ng \in 0..MaxFilterLen :
       \E ft \in [1..nt -> TypeVals] :
       \E tg \in [1..ng -> TagFilterVals] :
       \E sv \in {<<>>, <<"High">>} :
       \E pn \in {<<>>, <<"GuardDuty">>} :
       \E rt \in {<<>>, <<"AWS::EC2::Instance">>} :
       \E ac \in {<<>>, <<"111111111111">>} :
       \E rg \in {<<>>, <<"us-east-1">>} :
          rules = <<MkRule(name, enabled,
                           [FindingTypes |-> ft, Severity |-> sv,
                            ProductName |-> pn, ResourceTypes |-> rt,
                            ResourceTags |-> tg, Accounts |-> ac,
                            Regions |-> rg],
                           status, comment, skip)>>
    /\ payload = <<>>
    /\ parsed = <<>>
    /\ pc = "RuleInput"
    /\ bucket = <<>>
    /\ loaded = <<>>
    /\ notifier = FALSE
    /\ evt = <<>>
    /\ finding = NoFinding
    /\ matchedIdx = 0
    /\ closeCalls = <<>>
    /\ notifyCalls = <<>>
    /\ result = ErrPending
    /\ steps = <<>>
    /\ filters = NoFilters
    /\ verdict = "none"
    /\ ctxDone = "no"
    /\ HandlerIdle

ApplyMarshal ==
    /\ pc = "RuleInput"
    /\ payload' = MarshalRule(rules[1])
    /\ pc' = "Encoded"
    /\ UNCHANGED <<rules, notifier, evt, finding, matchedIdx, closeCalls,
                   notifyCalls, result, steps, filters, verdict, ctxDone,
                   bucket, loaded, parsed, handlerVars>>

ApplyUnmarshal ==
    /\ pc = "Encoded"
    /\ parsed' = <<UnmarshalRule(payload)>>
    /\ pc' = "Decoded"
    /\ UNCHANGED <<rules, notifier, evt, finding, matchedIdx, closeCalls,
                   notifyCalls, result, steps, filters, verdict, ctxDone,
                   bucket, loaded, payload, handlerVars>>

NextRoundTrip == ApplyMarshal \/ ApplyUnmarshal

SpecRoundTrip == InitRoundTrip /\ [][NextRoundTrip]_vars

\* C26: decoding the encoding of a rule succeeds and yields a rule equal to
\* the original in the name, enabled, every filter category, the action's
\* status id and comment, and skip_notification.
C26_RoundTrip ==
    pc = "Decoded" =>
        /\ parsed[1].err = ErrNil
        /\ parsed[1].rule.Name = rules[1].Name
        /\ parsed[1].rule.Enabled = rules[1].Enabled
        /\ parsed[1].rule.Filters = rules[1].Filters
        /\ parsed[1].rule.Action = rules[1].Action
        /\ parsed[1].rule.SkipNotification = rules[1].SkipNotification

\* A rule with both booleans false and no filter category came back equal
\* from an encoding whose filters object is empty.
C26_Witness ==
    /\ pc = "Decoded"
    /\ parsed[1].rule = rules[1]
    /\ ~rules[1].Enabled
    /\ ~rules[1].SkipNotification
    /\ rules[1].Filters = NoFilters
    /\ DOMAIN payload[1].obj.filters = {}


(* Further properties of the handler *)

InitRunning == once.state \in {"config", "new"}

InitFailure == once.state = "done" /\ app.initErr # ErrNil

\* C27: the initialisation runs at most once and one invocation runs it; an
\* invocation is in Process only after the initialisation has completed
\* without error; after a failed initialisation every invocation returns
\* the error it left, none is in Process, and the initialisation's results
\* never change again.
C27_InitialisedOnce ==
    /\ [](/\ app.inits <= 1
          /\ app.inits = 1 <=> once.state = "done"
          /\ InitRunning => procs[once.by].pc = "InOnce"
          /\ \A i \in Procs :
                InProcess(i) =>
                    /\ once.state = "done"
                    /\ app.set
                    /\ app.initErr = ErrNil
          /\ \A i \in Procs :
                procs[i].pc = "InitFailed" =>
                    /\ InitFailure
                    /\ procs[i].result = app.initErr
                    /\ procs[i].finding = NoFinding
                    /\ procs[i].closeCalls = <<>>
                    /\ procs[i].notifyCalls = <<>>
          /\ InitFailure => ~app.set /\ \A i \in Procs : ~InProcess(i))
    /\ [][/\ once.state # "idle" => once'.by = once.by
          /\ once.state = "done" =>
                /\ once' = once
                /\ app' = app
                /\ rules' = rules
                /\ notifier' = notifier]_vars

\* The invocation that ran a failing initialisation and one that arrived
\* after it both returned its error.
C27_Witness ==
    /\ InitFailure
    /\ app.inits = 1
    /\ \A i \in Procs : procs[i].pc = "InitFailed" /\ procs[i].result = app.initErr
    /\ \E i \in Procs : i # once.by


(* Further properties of the pipeline *)

Finished == pc \in {"Done", "Failed"}

\* C28: a finding matched by a rule never takes the unmatched branch, and
\* once its close has succeeded the notifier is called, once and with that
\* finding, exactly when the rule's skip_notification is false and a
\* notifier is configured, whether or not the finding is alertable.
C28_MatchedNotifyIgnoresAlertable ==
    matchedIdx > 0 =>
        /\ pc # "Unmatched"
        /\ ~CloseSucceeded => notifyCalls = <<>>
        /\ (Finished /\ CloseSucceeded) =>
              IF ~rules[matchedIdx].SkipNotification /\ notifier
              THEN /\ Len(notifyCalls) = 1
                   /\ notifyCalls[1].finding = finding
              ELSE notifyCalls = <<>>

\* A resolved finding, which is not alertable, was closed by a rule and the
\* notifier was called for it.
C28_Witness ==
    /\ pc = "Done"
    /\ matchedIdx > 0
    /\ CloseSucceeded
    /\ finding.Status = "Resolved"
    /\ ~IsAlertable(finding)
    /\ Len(notifyCalls) = 1


\* What the loader answers for the bucket of the environment.
BucketAnswer == LoadRules(env.s3)

BucketConfigured == env.APP_AUTO_CLOSE_RULES_S3_BUCKET # ""

TokenSet == env.APP_SLACK_TOKEN # ""

ChannelSet == env.APP_SLACK_CHANNEL # ""

\* C30: with exactly one of the Slack token and channel set the
\* configuration is refused and no App is set; a configuration that loads
\* has SlackEnabled true exactly when both are set; an App that is set has
\* a notifier exactly when SlackEnabled is true; and an invocation calls
\* the notifier only when the App has one.
C30_NotifierIffTokenAndChannel ==
    /\ once.state = "done" =>
          /\ (TokenSet # ChannelSet) =>
                /\ ~app.set
                /\ app.initErr # ErrNil
                /\ ~notifier
                /\ app.initErr.kind = "wrapped"
                   \/ app.initErr.kind =
                         IF TokenSet THEN "APP_SLACK_TOKEN requires APP_SLACK_CHANNEL"
                         ELSE "APP_SLACK_CHANNEL requires APP_SLACK_TOKEN"
          /\ app.set =>
                /\ once.cfg.SlackEnabled = (TokenSet /\ ChannelSet)
                /\ notifier = once.cfg.SlackEnabled
    /\ ~app.set => ~notifier
    /\ \A i \in Procs :
          procs[i].notifyCalls # <<>> => app.set /\ notifier /\ TokenSet /\ ChannelSet

\* The token is set and the channel is not: the initialisation was refused
\* and an invocation returned the error.
C30_Witness ==
    /\ once.state = "done"
    /\ TokenSet
    /\ ~ChannelSet
    /\ app.initErr = [kind |-> "APP_SLACK_TOKEN requires APP_SLACK_CHANNEL"]
    /\ \E i \in Procs : procs[i].pc = "InitFailed" /\ procs[i].result = app.initErr

====
